---- MODULE Spec2Model ----
(***************************************************************************)
(* A model of the progression generator and the voicing/register engine   *)
(* of app.py (Aural Alchemy MIDI progression generator).                   *)
(*                                                                         *)
(* Randomness.  Every draw of the seeded stream (rng.choices, rng.shuffle, *)
(* rng.random) is a nondeterministic choice over the values the draw can   *)
(* return: a weighted choice returns any item of positive weight, a        *)
(* shuffle-then-first-match loop returns any matching item.                *)
(*                                                                         *)
(* Numbers.  The pool weights (balance factors) are kept as integers       *)
(* scaled by 50 and the chord centres as integers scaled by 2, as said at  *)
(* each definition.  The average sus factor that selects the sus regime is *)
(* compared with 1.35 in float arithmetic, and is computed here with the   *)
(* roundings of that arithmetic (see BalanceFactorFloat and sus_heavy).    *)
(***************************************************************************)
EXTENDS Integers, Sequences, FiniteSets, TLC

\* ------------------------------------------------------------------------
\* Bounds of the model (not program constants)
\* ------------------------------------------------------------------------
\* keys explored: the first NumKeys entries of KEYS
NumKeys == 3
\* chord counts explored when no balance is given (every quality enabled):
\* 2..MaxChords; under the one-quality balances of Inputs all counts 2..6 are
\* explored
MaxChords == 3
\* chord counts explored under the sus-heavy balance: 2..MaxChordsHeavy
MaxChordsHeavy == 4
\* chord counts explored under a balance that is not sus-heavy and enables
\* several qualities: 2..MaxChordsMixed
MaxChordsMixed == 5
\* slots of a batch that are explored: batches of 1..MaxSlots progressions
\* run to their end, a batch of 100 or 200 is followed through its first
\* MaxSlots slots
MaxSlots == 3
\* rejected attempts of one slot that are counted one by one before the rest
\* of the try budget is taken as one run of rejections
MaxTriesStepped == 0
\* chords of a written file that are followed
MaxVoiced == 2
\* draws of glue_ok that pass while one chord is voiced: 0..MaxGlueKept
MaxGlueKept == 1
\* batch sizes of the calls that are made twice: 1..MaxSeededBatch
MaxSeededBatch == 2
\* largest n _pick_keys_even is applied to on its own (one full round of the
\* key table and two keys more)
MaxKeyBatch == 14
\* positions at which one shuffle of _pick_keys_even draws another position
\* than its own (at every other position the element stays where it is)
MaxShuffleSwaps == 1

\* ------------------------------------------------------------------------
\* Musical data
\* ------------------------------------------------------------------------
NOTE_TO_PC ==
  ("C" :> 0) @@ ("B#" :> 0) @@ ("C#" :> 1) @@ ("Db" :> 1) @@ ("D" :> 2) @@
  ("D#" :> 3) @@ ("Eb" :> 3) @@ ("E" :> 4) @@ ("Fb" :> 4) @@ ("E#" :> 5) @@
  ("F" :> 5) @@ ("F#" :> 6) @@ ("Gb" :> 6) @@ ("G" :> 7) @@ ("G#" :> 8) @@
  ("Ab" :> 8) @@ ("A" :> 9) @@ ("A#" :> 10) @@ ("Bb" :> 10) @@ ("B" :> 11) @@
  ("Cb" :> 11)

KEYS == <<"C", "Db", "D", "Eb", "E", "F", "Gb", "G", "Ab", "A", "Bb", "B">>

SCALES ==
  ("C"  :> <<"C", "D", "E", "F", "G", "A", "B">>) @@
  ("Db" :> <<"Db", "Eb", "F", "Gb", "Ab", "Bb", "C">>) @@
  ("D"  :> <<"D", "E", "F#", "G", "A", "B", "C#">>) @@
  ("Eb" :> <<"Eb", "F", "G", "Ab", "Bb", "C", "D">>) @@
  ("E"  :> <<"E", "F#", "G#", "A", "B", "C#", "D#">>) @@
  ("F"  :> <<"F", "G", "A", "Bb", "C", "D", "E">>) @@
  ("Gb" :> <<"Gb", "Ab", "Bb", "Cb", "Db", "Eb", "F">>) @@
  ("G"  :> <<"G", "A", "B", "C", "D", "E", "F#">>) @@
  ("Ab" :> <<"Ab", "Bb", "C", "Db", "Eb", "F", "G">>) @@
  ("A"  :> <<"A", "B", "C#", "D", "E", "F#", "G#">>) @@
  ("Bb" :> <<"Bb", "C", "D", "Eb", "F", "G", "A">>) @@
  ("B"  :> <<"B", "C#", "D#", "E", "F#", "G#", "A#">>)

QUAL_TO_INTERVALS ==
  ("maj" :> <<0, 4, 7>>) @@ ("min" :> <<0, 3, 7>>) @@
  ("maj7" :> <<0, 4, 7, 11>>) @@ ("maj9" :> <<0, 4, 7, 11, 14>>) @@
  ("add9" :> <<0, 4, 7, 14>>) @@ ("6" :> <<0, 4, 7, 9>>) @@
  ("6add9" :> <<0, 4, 7, 9, 14>>) @@
  ("min7" :> <<0, 3, 7, 10>>) @@ ("min9" :> <<0, 3, 7, 10, 14>>) @@
  ("min11" :> <<0, 3, 7, 10, 14, 17>>) @@
  ("sus2" :> <<0, 2, 7>>) @@ ("sus4" :> <<0, 5, 7>>) @@
  ("sus2add9" :> <<0, 2, 7, 14>>) @@ ("sus4add9" :> <<0, 5, 7, 14>>)

Qualities == DOMAIN QUAL_TO_INTERVALS

QUALITY_NOTECOUNT == [q \in Qualities |-> Len(QUAL_TO_INTERVALS[q])]

\* ------------------------------------------------------------------------
\* Small helpers on sequences and sets
\* ------------------------------------------------------------------------
Range(s) == {s[i] : i \in DOMAIN s}

RECURSIVE SumSeq(_)
SumSeq(s) == IF s = <<>> THEN 0 ELSE Head(s) + SumSeq(Tail(s))

Abs(x) == IF x < 0 THEN -x ELSE x

SetMin(S) == CHOOSE x \in S : \A y \in S : x <= y

SetMax(S) == CHOOSE x \in S : \A y \in S : x >= y

\* ------------------------------------------------------------------------
\* Music theory model
\* ------------------------------------------------------------------------
_pc(note) == NOTE_TO_PC[note]

_key_pc_set(key) == {_pc(SCALES[key][i]) : i \in 1..7}

_chord_pc_set_real(root_note, qual) ==
  {(_pc(root_note) + QUAL_TO_INTERVALS[qual][i]) % 12 :
      i \in DOMAIN QUAL_TO_INTERVALS[qual]}

\* mutant: tests the root only, not the chord tones
IsDiatonicRootOnly(key, root_note, qual) == _pc(root_note) \in _key_pc_set(key)

_is_diatonic_chord(key, root_note, qual) ==
  _chord_pc_set_real(root_note, qual) \subseteq _key_pc_set(key)

\* the chord symbol root + qual of the code, as text
ChordSymbol(root_note, qual) == root_note \o qual

_shared_tone_ok_loop(roots, quals, need, loop) ==
  LET m == Len(roots)
      pcs == [i \in 1..m |-> _chord_pc_set_real(roots[i], quals[i])]
  IN /\ \A i \in 1..(m - 1) : Cardinality(pcs[i] \cap pcs[i + 1]) >= need
     /\ (loop /\ m >= 2) => Cardinality(pcs[m] \cap pcs[1]) >= need

_low_sim_count_loop(roots, quals, loop) ==
  LET m == Len(roots)
      pcs == [i \in 1..m |-> _chord_pc_set_real(roots[i], quals[i])]
  IN Cardinality({i \in 1..(m - 1) : pcs[i] \cap pcs[i + 1] = {}})
     + (IF loop /\ m >= 2 /\ pcs[m] \cap pcs[1] = {} THEN 1 ELSE 0)

\* ------------------------------------------------------------------------
\* Generator settings
\* ------------------------------------------------------------------------
PATTERN_MAX_REPEATS == 1

\* MAX_PATTERN_DUPLICATE_RATIO = 0.01, kept as its reciprocal
PATTERN_DUPLICATE_DIVISOR == 100

MAX_BIG_JUMPS_PER_PROG == 1

MIN_SHARED_TONES == 1

MAX_TRIES_PER_PROG == 40000

LIMIT_NOTECOUNT_JUMPS == TRUE

ENFORCE_LOOP_OK == TRUE

STRICT_SLIDERS == TRUE

ADV_DEFAULT_VALUE == 50

\* weights of the two marginal distributions, in hundredths
TOTAL_BARS_DISTRIBUTION == (8 :> 40) @@ (4 :> 35) @@ (16 :> 25)

CHORDCOUNT_DISTRIBUTION == (4 :> 40) @@ (3 :> 35) @@ (2 :> 20) @@ (5 :> 3) @@ (6 :> 2)

SAFE_FALLBACK_ORDER ==
  <<"maj9", "maj7", "add9", "6add9", "6", "min9", "min7", "min11",
    "maj", "min", "sus2add9", "sus4add9", "sus2", "sus4">>

ADV_ALL_QUALITIES ==
  <<"maj9", "maj7", "add9", "6add9", "6", "maj", "min9", "min7", "min11", "min",
    "sus2add9", "sus4add9", "sus2", "sus4">>

\* templates are sequences of 0-based scale degrees, each with its weight
TEMPLATES_BY_LEN ==
  (2 :> << <<(<<0, 3>>), 10>>, <<(<<0, 5>>), 7>>, <<(<<5, 3>>), 5>>,
           <<(<<3, 0>>), 4>>, <<(<<0, 4>>), 3>> >>) @@
  (3 :> << <<(<<0, 5, 3>>), 14>>, <<(<<0, 3, 4>>), 12>>, <<(<<0, 3, 5>>), 10>>,
           <<(<<0, 5, 4>>), 9>>, <<(<<0, 2, 3>>), 7>>, <<(<<0, 2, 5>>), 6>>,
           <<(<<3, 5, 0>>), 5>>, <<(<<5, 3, 0>>), 5>>, <<(<<0, 1, 3>>), 3>>,
           <<(<<0, 6, 3>>), 2>> >>) @@
  (4 :> << <<(<<0, 5, 3, 4>>), 18>>, <<(<<0, 5, 3, 0>>), 12>>,
           <<(<<0, 3, 4, 3>>), 12>>, <<(<<0, 3, 5, 3>>), 12>>,
           <<(<<0, 2, 5, 3>>), 10>>, <<(<<0, 2, 3, 4>>), 10>>,
           <<(<<0, 1, 3, 4>>), 6>>, <<(<<0, 1, 3, 0>>), 5>>,
           <<(<<5, 3, 4, 0>>), 5>>, <<(<<3, 4, 0, 5>>), 4>>,
           <<(<<0, 4, 3, 5>>), 4>> >>) @@
  (5 :> << <<(<<0, 5, 3, 4, 3>>), 4>>, <<(<<0, 3, 0, 5, 3>>), 3>>,
           <<(<<0, 2, 3, 4, 3>>), 3>> >>) @@
  (6 :> << <<(<<0, 5, 3, 4, 3, 0>>), 3>>, <<(<<0, 3, 0, 5, 3, 0>>), 3>> >>)

\* keyed by <<chord count, total bars>>; each entry a duration list and its weight
DURATIONS ==
  (<<2, 4>> :> << <<(<<2, 2>>), 10>> >>) @@
  (<<3, 4>> :> << <<(<<2, 1, 1>>), 10>>, <<(<<1, 1, 2>>), 8>> >>) @@
  (<<4, 4>> :> << <<(<<1, 1, 1, 1>>), 12>> >>) @@
  (<<2, 8>> :> << <<(<<4, 4>>), 12>> >>) @@
  (<<3, 8>> :> << <<(<<4, 2, 2>>), 10>>, <<(<<2, 2, 4>>), 9>>,
                  <<(<<2, 4, 2>>), 2>>, <<(<<3, 3, 2>>), 1>> >>) @@
  (<<4, 8>> :> << <<(<<2, 2, 2, 2>>), 12>>, <<(<<4, 2, 1, 1>>), 1>>,
                  <<(<<2, 1, 1, 4>>), 1>>, <<(<<1, 1, 2, 4>>), 0>>,
                  <<(<<4, 1, 1, 2>>), 1>> >>) @@
  (<<5, 8>> :> << <<(<<2, 2, 2, 1, 1>>), 3>>, <<(<<1, 2, 2, 2, 1>>), 1>>,
                  <<(<<2, 1, 2, 1, 2>>), 7>>, <<(<<2, 2, 1, 2, 1>>), 3>> >>) @@
  (<<6, 8>> :> << <<(<<2, 1, 1, 2, 1, 1>>), 5>>, <<(<<1, 1, 1, 1, 2, 2>>), 1>>,
                  <<(<<1, 1, 2, 1, 1, 2>>), 4>>, <<(<<2, 1, 2, 1, 1, 1>>), 3>> >>) @@
  (<<2, 16>> :> << <<(<<8, 8>>), 8>> >>) @@
  (<<3, 16>> :> << <<(<<8, 4, 4>>), 4>>, <<(<<4, 4, 8>>), 3>>, <<(<<6, 6, 4>>), 3>> >>) @@
  (<<4, 16>> :> << <<(<<4, 4, 4, 4>>), 12>>, <<(<<6, 4, 4, 2>>), 4>> >>) @@
  (<<5, 16>> :> << <<(<<4, 4, 4, 2, 2>>), 3>>, <<(<<2, 2, 4, 4, 4>>), 3>>,
                   <<(<<4, 2, 4, 2, 4>>), 7>>, <<(<<2, 4, 4, 4, 2>>), 3>> >>) @@
  (<<6, 16>> :> << <<(<<4, 2, 2, 4, 2, 2>>), 5>>, <<(<<4, 2, 2, 2, 2, 4>>), 4>>,
                   <<(<<2, 4, 2, 4, 2, 2>>), 5>> >>)

VALID_COMBOS == DOMAIN DURATIONS

\* rng.choices(items, weights, k=1)[0]: any item whose weight is positive
_wchoice(items_with_w) == {it[1] : it \in {x \in Range(items_with_w) : x[2] > 0}}

_pick_template_degs(m) == _wchoice(TEMPLATES_BY_LEN[m])

\* mutant: the duration table is read for the chord count only
PickDurationsAnyTotal(m, total) ==
  UNION {_wchoice(DURATIONS[c]) : c \in {x \in DOMAIN DURATIONS : x[1] = m}}

_pick_durations(m, total) == _wchoice(DURATIONS[<<m, total>>])

\* the <<total, m>> pairs of positive joint weight
_pick_valid_total_and_m ==
  LET Wt(c) ==
        (IF c[2] \in DOMAIN TOTAL_BARS_DISTRIBUTION
           THEN TOTAL_BARS_DISTRIBUTION[c[2]] ELSE 0)
        * (IF c[1] \in DOMAIN CHORDCOUNT_DISTRIBUTION
             THEN CHORDCOUNT_DISTRIBUTION[c[1]] ELSE 0)
  IN {<<c[2], c[1]>> : c \in {x \in VALID_COMBOS : Wt(x) > 0}}

_pattern_fingerprint(degs, quals) == <<degs, quals>>

\* ------------------------------------------------------------------------
\* Chord type balance and strict mode
\* ------------------------------------------------------------------------
\* chord_balance = None (also the empty dict: both are "not balance")
NoBalance == <<>>

HasBalance(balance) == DOMAIN balance # {}

\* balance.get(q, ADV_DEFAULT_VALUE)
BalanceGet(balance, q) ==
  IF q \in DOMAIN balance THEN balance[q] ELSE ADV_DEFAULT_VALUE

\* _balance_factor(v), times 50: 0 -> 0, 50 -> 50 (1.0), v < 50 -> max(1, v)
\* (max(0.02, v/50)), v > 50 -> 50 + (v - 50)
_balance_factor(v) ==
  LET c == IF v < 0 THEN 0 ELSE IF v > 100 THEN 100 ELSE v
  IN IF c = 0 THEN 0
     ELSE IF c = 50 THEN 50
     ELSE IF c < 50 THEN (IF c < 1 THEN 1 ELSE c)
     ELSE 50 + (c - 50)

_enabled_qualities(balance) ==
  IF ~HasBalance(balance) THEN ADV_ALL_QUALITIES
  ELSE SelectSeq(ADV_ALL_QUALITIES, LAMBDA q : BalanceGet(balance, q) > 0)

\* _build_deg_allowed raises when strict mode finds every slider at 0
\* the check of the sliders switched off: no balance is ever refused
ConfigErrorSlidersLoose(balance) ==
  ~STRICT_SLIDERS /\ HasBalance(balance) /\ Len(_enabled_qualities(balance)) = 0

ConfigError(balance) ==
  STRICT_SLIDERS /\ HasBalance(balance) /\ Len(_enabled_qualities(balance)) = 0

\* degree (0-based) -> list of <<quality, weight times 50>>; max(1e-9, factor)
\* is the factor itself for an enabled quality (its slider is at least 1)
_build_deg_allowed(balance, key) ==
  LET enabled == _enabled_qualities(balance)
      W(q) == IF HasBalance(balance)
                THEN (IF _balance_factor(BalanceGet(balance, q)) > 0
                        THEN _balance_factor(BalanceGet(balance, q)) ELSE 1)
                ELSE 50
      items(deg) ==
        LET ok == SelectSeq(enabled,
                    LAMBDA q : _is_diatonic_chord(key, SCALES[key][deg + 1], q))
        IN [j \in 1..Len(ok) |-> <<ok[j], W(ok[j])>>]
  IN [deg \in 0..6 |-> items(deg)]

\* the qualities _pick_quality_diatonic can return; {} stands for None
_pick_quality_diatonic(deg, deg_allowed) ==
  IF deg \in DOMAIN deg_allowed THEN _wchoice(deg_allowed[deg]) ELSE {}

\* ------------------------------------------------------------------------
\* De-duplication repair inside one progression
\* ------------------------------------------------------------------------
NEIGHBOR_STEPS == <<1, -1, 2, -2, 3, -3>>

DedupeNone == [ok |-> FALSE, degs |-> <<>>, quals |-> <<>>]

\* the fix the neighbour loop takes at step stp, if that step has one: the
\* same quality at the neighbour root, else any unused diatonic fallback there
NeighborFixes(key, d, q, used, stp) ==
  LET d2 == (d + stp) % 7
      root2 == SCALES[key][d2 + 1]
  IN IF _is_diatonic_chord(key, root2, q) /\ ChordSymbol(root2, q) \notin used
       THEN {<<d2, q>>}
       ELSE {<<d2, q2>> : q2 \in
               {x \in Range(SAFE_FALLBACK_ORDER) :
                  /\ _is_diatonic_chord(key, root2, x)
                  /\ ChordSymbol(root2, x) \notin used}}

\* all results of the loop from index i on (1-based), over every shuffle order:
\* a shuffled list scanned for its first match yields any match
RECURSIVE DedupeFrom(_, _, _, _, _)
DedupeFrom(key, i, degs, quals, used) ==
  IF i > Len(degs) THEN {[ok |-> TRUE, degs |-> degs, quals |-> quals]}
  ELSE
    LET d == degs[i]
        root == SCALES[key][d + 1]
        q == quals[i]
        sym == ChordSymbol(root, q)
        sameRoot == {q2 \in Range(SAFE_FALLBACK_ORDER) :
                       /\ q2 # q
                       /\ _is_diatonic_chord(key, root, q2)
                       /\ ChordSymbol(root, q2) \notin used}
        moved == UNION {NeighborFixes(key, d, q, used, NEIGHBOR_STEPS[k]) :
                          k \in DOMAIN NEIGHBOR_STEPS}
    IN IF sym \notin used
         THEN DedupeFrom(key, i + 1, degs, quals, used \cup {sym})
       ELSE IF sameRoot # {}
         THEN UNION {DedupeFrom(key, i + 1, degs, [quals EXCEPT ![i] = q2],
                                used \cup {ChordSymbol(root, q2)}) :
                       q2 \in sameRoot}
       ELSE IF moved # {}
         THEN UNION {DedupeFrom(key, i + 1, [degs EXCEPT ![i] = f[1]],
                                [quals EXCEPT ![i] = f[2]],
                                used \cup {ChordSymbol(SCALES[key][f[1] + 1], f[2])}) :
                       f \in moved}
       ELSE {DedupeNone}

\* the lists handed back as they came, repeats included
DedupeSkipped(key, degs, quals) == {[ok |-> TRUE, degs |-> degs, quals |-> quals]}

_dedupe_inside_progression(key, degs, quals) == DedupeFrom(key, 1, degs, quals, {})

\* ------------------------------------------------------------------------
\* Progression builder
\* ------------------------------------------------------------------------
SUS_KEYS == <<"sus2", "sus4", "sus2add9", "sus4add9">>

\* the sus test that knows the two sus triads only
IsSusTriad(q) == q \in {"sus2", "sus4"}

\* q.startswith("sus"), over the quality table
is_sus(q) == q \in {"sus2", "sus4", "sus2add9", "sus4add9"}

\* q.startswith("sus4"), over the quality table
is_sus4ish(q) == q \in {"sus4", "sus4add9"}

pc_interval(a, b) ==
  LET iv == Abs((b - a) % 12)
  IN IF iv < 12 - iv THEN iv ELSE 12 - iv

\* a sus chord let through at the start whenever no balance is supplied
SusStartWithoutBalance(chord_balance) ==
  \/ ~HasBalance(chord_balance)
  \/ \E k \in Range(SUS_KEYS) : BalanceGet(chord_balance, k) > 80

sus_allowed_start(chord_balance) ==
  /\ HasBalance(chord_balance)
  /\ \E k \in Range(SUS_KEYS) : BalanceGet(chord_balance, k) > 80

\* The floats of the sus weight average. A float (IEEE double) of this
\* computation is a multiple of 2^-66 below 2^4, held as <<a, b, c>> for
\* a * 2^42 + b * 2^21 + c (b, c < 2^21) in units of 2^-66.
LimbBase == 2^21

\* the number of binary digits of a
BitLength(a) == Cardinality({j \in 0..30 : a >= 2^j})

\* x + y, exact
FAddExact(x, y) ==
  <<x[1] + y[1] + ((x[2] + y[2] + ((x[3] + y[3]) \div LimbBase)) \div LimbBase),
    (x[2] + y[2] + ((x[3] + y[3]) \div LimbBase)) % LimbBase,
    (x[3] + y[3]) % LimbBase>>

\* the digits of x below the 53 leading ones, r of them, rounded away: to the
\* nearest, a tie to the even neighbour; sticky tells that the exact value
\* lies above x by less than one unit
FRoundAt(x, r, sticky) ==
  LET low == x[3] % (2^r)
      q == x[3] \div (2^r)
      up == \/ 2 * low > 2^r
            \/ 2 * low = 2^r /\ sticky
            \/ 2 * low = 2^r /\ q % 2 = 1
  IN FAddExact(<<x[1], x[2], 0>>, <<0, 0, (q + (IF up THEN 1 ELSE 0)) * (2^r)>>)

\* x rounded to a double (53 significant binary digits)
FRound(x, sticky) ==
  IF BitLength(x[1]) <= 11 THEN x ELSE FRoundAt(x, BitLength(x[1]) - 11, sticky)

\* the float sum x + y
FAdd(x, y) == FRound(FAddExact(x, y), FALSE)

\* the float quotient num / den of two small integers, by long division
FDiv(num, den) ==
  LET a0 == num * (2^24)
      b0 == (a0 % den) * LimbBase
      c0 == (b0 % den) * LimbBase
  IN FRound(<<a0 \div den, b0 \div den, c0 \div den>>, c0 % den # 0)

\* x / 4.0 (exact)
FQuarter(x) ==
  <<x[1] \div 4,
    (x[2] \div 4) + (x[1] % 4) * (LimbBase \div 4),
    (x[3] \div 4) + (x[2] % 4) * (LimbBase \div 4)>>

\* x >= y
FGeq(x, y) ==
  \/ x[1] > y[1]
  \/ x[1] = y[1] /\ x[2] > y[2]
  \/ x[1] = y[1] /\ x[2] = y[2] /\ x[3] >= y[3]

FZero == <<0, 0, 0>>

FOne == <<2^24, 0, 0>>

\* _balance_factor(v) as the float it returns
BalanceFactorFloat(v) ==
  LET c == IF v < 0 THEN 0 ELSE IF v > 100 THEN 100 ELSE v
  IN IF c = 0 THEN FZero
     ELSE IF c = 50 THEN FOne
     ELSE IF c < 50
       THEN (IF FGeq(FDiv(1, 50), FDiv(c, 50)) THEN FDiv(1, 50) ELSE FDiv(c, 50))
     ELSE FAdd(FOne, FDiv(c - 50, 50))

\* sum(vals) of the four factors, the floats added from left to right
SusWeightSum(chord_balance) ==
  FAdd(FAdd(FAdd(BalanceFactorFloat(BalanceGet(chord_balance, SUS_KEYS[1])),
                 BalanceFactorFloat(BalanceGet(chord_balance, SUS_KEYS[2]))),
            BalanceFactorFloat(BalanceGet(chord_balance, SUS_KEYS[3]))),
       BalanceFactorFloat(BalanceGet(chord_balance, SUS_KEYS[4])))

\* avg_sus_weight = sum(vals) / len(vals); sus_heavy = avg_sus_weight >= 1.35
\* (avg_sus_weight stays 1.0 without a balance)
sus_heavy(chord_balance) ==
  /\ HasBalance(chord_balance)
  /\ FGeq(FQuarter(SusWeightSum(chord_balance)), FDiv(27, 20))

DEFAULT_SUS_MAX_PERCENT == 45

DEFAULT_SUS4_MAX_COUNT == 1

DEFAULT_NEED_IF_SUS == 2

DEFAULT_NEED_IF_SUS4 == 3

HEAVY_NEED == 2

HEAVY_NEED_IF_SUS4 == 3

BIG_JUMP_NOTECOUNT == 3

\* the sus4-to-sus4 rule (ALLOW_SUS4_TO_SUS4_IF_SAFE is True)
Sus4PairSafe(shared, iv, sameRoot) == shared >= 3 \/ iv <= 2 \/ sameRoot

\* the per-pair test without its shared-tone requirement: the sus4-to-sus4
\* rule alone
SusPairNoNeed(quals, roots, pcs, root_pcs, heavy, i, j) ==
  (is_sus4ish(quals[i]) /\ is_sus4ish(quals[j]))
    => Sus4PairSafe(Cardinality(pcs[i] \cap pcs[j]),
                    pc_interval(root_pcs[i], root_pcs[j]), roots[i] = roots[j])

\* the per-pair test of the sus safety loop for the pair (i, j), j = i + 1 wrapped
SusPairOk(quals, roots, pcs, root_pcs, heavy, i, j) ==
  LET shared == Cardinality(pcs[i] \cap pcs[j])
      iv == pc_interval(root_pcs[i], root_pcs[j])
      four == is_sus4ish(quals[i]) \/ is_sus4ish(quals[j])
      need == IF heavy
                THEN (IF four /\ HEAVY_NEED_IF_SUS4 > HEAVY_NEED
                        THEN HEAVY_NEED_IF_SUS4 ELSE HEAVY_NEED)
                ELSE LET n1 == IF is_sus(quals[i]) \/ is_sus(quals[j])
                                 THEN DEFAULT_NEED_IF_SUS ELSE 1
                     IN IF four /\ DEFAULT_NEED_IF_SUS4 > n1
                          THEN DEFAULT_NEED_IF_SUS4 ELSE n1
  IN /\ shared >= need
     /\ (is_sus4ish(quals[i]) /\ is_sus4ish(quals[j]))
          => Sus4PairSafe(shared, iv, roots[i] = roots[j])

\* the big-jump count over the adjacent pairs alone
BigJumpsNoWrap(quals) ==
  Cardinality({i \in 1..(Len(quals) - 1) :
     Abs(QUALITY_NOTECOUNT[quals[i]] - QUALITY_NOTECOUNT[quals[i + 1]])
       >= BIG_JUMP_NOTECOUNT})

\* the big-jump count of the note-count limiter (loop edge included)
BigJumps(quals) ==
  LET m == Len(quals)
      Big(a, b) == Abs(QUALITY_NOTECOUNT[a] - QUALITY_NOTECOUNT[b]) >= BIG_JUMP_NOTECOUNT
  IN Cardinality({i \in 1..(m - 1) : Big(quals[i], quals[i + 1])})
     + (IF ENFORCE_LOOP_OK /\ m >= 2 /\ Big(quals[m], quals[1]) THEN 1 ELSE 0)

\* every test of _build_progression after the repair, on the repaired lists;
\* loop = TRUE is the code (the wrap-around pair is tested like the others)
BuildChecksOn(key, degs, quals, chord_balance, loop) ==
  LET m == Len(quals)
      roots == [i \in 1..m |-> SCALES[key][degs[i] + 1]]
      pcs == [i \in 1..m |-> _chord_pc_set_real(roots[i], quals[i])]
      root_pcs == [i \in 1..m |-> _pc(roots[i])]
      heavy == sus_heavy(chord_balance)
      sus_count == Cardinality({i \in 1..m : is_sus(quals[i])})
      sus4_count == Cardinality({i \in 1..m : is_sus4ish(quals[i])})
      Nxt(i) == (i % m) + 1
      pairs == IF loop THEN 1..m ELSE 1..(m - 1)
      step_moves == Cardinality({i \in pairs :
                       pc_interval(root_pcs[i], root_pcs[Nxt(i)]) <= 2})
      has_repeat_root == Cardinality(Range(root_pcs)) < m
  IN /\ \A i \in 1..m : _is_diatonic_chord(key, roots[i], quals[i])
     /\ _shared_tone_ok_loop(roots, quals, MIN_SHARED_TONES, loop)
     /\ ~heavy => /\ 100 * sus_count <= DEFAULT_SUS_MAX_PERCENT * (IF m < 1 THEN 1 ELSE m)
                  /\ sus4_count <= DEFAULT_SUS4_MAX_COUNT
     /\ \A i \in pairs : SusPairOk(quals, roots, pcs, root_pcs, heavy, i, Nxt(i))
     /\ heavy => (step_moves # 0 \/ has_repeat_root)
     /\ LIMIT_NOTECOUNT_JUMPS => BigJumps(quals) <= MAX_BIG_JUMPS_PER_PROG
     /\ _low_sim_count_loop(roots, quals, loop /\ ENFORCE_LOOP_OK) = 0

\* mutant: the wrap-around pair (last chord to first chord) is never tested
BuildChecksNoLoopEdge(key, degs, quals, chord_balance) ==
  BuildChecksOn(key, degs, quals, chord_balance, FALSE)

BuildChecks(key, degs, quals, chord_balance) ==
  BuildChecksOn(key, degs, quals, chord_balance, TRUE)

BuildNone ==
  [ok |-> FALSE, chords |-> <<>>, durs |-> <<>>, key |-> "", degs |-> <<>>,
   quals |-> <<>>]

\* the quality lists the sampling loop can produce: one pool item per degree
RECURSIVE QualVectors(_, _, _)
QualVectors(degs, deg_allowed, k) ==
  IF k = 0 THEN {<<>>}
  ELSE {Append(v, q) : v \in QualVectors(degs, deg_allowed, k - 1),
                       q \in _pick_quality_diatonic(degs[k], deg_allowed)}

\* what the builder does with one sampled quality list
BuildAfterPick(key, degs, quals, total_bars, chord_balance) ==
  IF is_sus(quals[1]) /\ ~sus_allowed_start(chord_balance) THEN {BuildNone}
  ELSE UNION
    {IF ~ded.ok THEN {BuildNone}
     ELSE IF ~BuildChecks(key, ded.degs, ded.quals, chord_balance) THEN {BuildNone}
     ELSE {[ok |-> TRUE,
            chords |-> [i \in 1..Len(ded.degs) |->
                          ChordSymbol(SCALES[key][ded.degs[i] + 1], ded.quals[i])],
            durs |-> du, key |-> key, degs |-> ded.degs, quals |-> ded.quals] :
              du \in _pick_durations(Len(ded.degs), total_bars)} :
       ded \in _dedupe_inside_progression(key, degs, quals)}

\* every result of _build_progression (BuildNone is the returned None)
_build_progression(key, degs, total_bars, deg_allowed, chord_balance) ==
  IF \E k \in 1..Len(degs) : _pick_quality_diatonic(degs[k], deg_allowed) = {}
    THEN {BuildNone}
  ELSE UNION {BuildAfterPick(key, degs, quals, total_bars, chord_balance) :
                quals \in QualVectors(degs, deg_allowed, Len(degs))}

\* ------------------------------------------------------------------------
\* Ban list lookup
\* ------------------------------------------------------------------------
\* _normalize_quality on a quality of the table ("maj6"/"ma6" -> "6",
\* "m" -> "min", "m<digit>.." -> "min<digit>..", everything else lower-cased)
_normalize_quality(q) ==
  CASE q \in {"maj6", "ma6"} -> "6"
    [] q = "m" -> "min"
    [] q \in {"m7", "m9", "m11"} -> "min" \o SubSeq(q, 2, Len(q))
    [] OTHER -> q

\* _normalize_chord_token(root + qual); "" when the quality is unknown
_normalize_chord_token(root, qual) ==
  IF root \in DOMAIN NOTE_TO_PC /\ _normalize_quality(qual) \in Qualities
    THEN root \o _normalize_quality(qual)
    ELSE ""

\* progression_is_banned on a built progression
progression_is_banned(key, degs, quals, banned_set) ==
  LET norm == [j \in 1..Len(degs) |->
                 _normalize_chord_token(SCALES[key][degs[j] + 1], quals[j])]
  IN /\ banned_set # {}
     /\ Len(degs) > 0
     /\ \A j \in 1..Len(degs) : norm[j] # ""
     /\ norm \in banned_set

\* ------------------------------------------------------------------------
\* Key assignment
\* ------------------------------------------------------------------------
KeyCount(s, k) == Cardinality({j \in DOMAIN s : s[j] = k})

\* p is a prefix of a list _pick_keys_even(n) can return: every key n \div 12
\* times, n % 12 distinct keys once more, in any order (the list is shuffled)
IsKeyListPrefix(p, n) ==
  LET base == n \div Len(KEYS)
      rem == n % Len(KEYS)
  IN /\ Len(p) <= n
     /\ Range(p) \subseteq Range(KEYS)
     /\ \A k \in Range(KEYS) : KeyCount(p, k) <= base + 1
     /\ Cardinality({k \in Range(KEYS) : KeyCount(p, k) = base + 1}) <= rem

ModelKeys == {KEYS[j] : j \in 1..NumKeys}

\* ------------------------------------------------------------------------
\* The voicing profiles of the page
\* ------------------------------------------------------------------------
VARIABLES
  voicing_profile     \* st.session_state[VOICING_PROFILE_KEY]: the name picked
                      \* in the "Voicing Profile" select box

ui_vars == <<voicing_profile>>

\* the span and register entries of VOICING_PROFILES
VOICING_PROFILES ==
  ("Default" :> [target_center |-> 60, ideal_span |-> 12, min_span |-> 8,
                 max_span |-> 18, max_bass_jump |-> 7]) @@
  ("Tight" :> [target_center |-> 60, ideal_span |-> 9, min_span |-> 7,
               max_span |-> 14, max_bass_jump |-> 6]) @@
  ("Wide" :> [target_center |-> 62, ideal_span |-> 16, min_span |-> 10,
              max_span |-> 22, max_bass_jump |-> 7]) @@
  ("Deep Low Ambient" :> [target_center |-> 58, ideal_span |-> 12, min_span |-> 8,
                          max_span |-> 18, max_bass_jump |-> 5])

\* st.session_state.setdefault(VOICING_PROFILE_KEY, "Default")
DEFAULT_PROFILE == "Default"

\* get_voicing_profile(): the entry of the profile picked
get_voicing_profile == VOICING_PROFILES[voicing_profile]

\* the ideal span read from the profile picked
ProfileIdealSpan == get_voicing_profile.ideal_span

\* ------------------------------------------------------------------------
\* Chord to MIDI and the voicing engine
\* ------------------------------------------------------------------------
ABS_NOTE_FLOOR == 40

ABS_NOTE_CEIL == 88

BASS_PREF_MIN == 40

BASS_PREF_MAX == 52

BASS_HARD_MIN == ABS_NOTE_FLOOR

BASS_HARD_MAX == 60

MAX_BASS_JUMP == 7

\* TARGET_CENTER = 60.0; centers are carried doubled, see center2
TARGET_CENTER == 60

IDEAL_SPAN == 12

MIN_SPAN == 8

MAX_SPAN == 18

MIN_ADJ_GAP == 2

MAX_ADJ_GAP == 9

HARD_MAX_ADJ_GAP == 12

MAX_SHARED_DEFAULT == 2

MAX_SHARED_MIN11 == 3

ENFORCE_NOT_RAW_WHEN_VOICING == TRUE

RAW_PENALTY == 1200

GLUE_LOW_CUTOFF == 48

ALLOW_RESOLVE_TO_THIRD == TRUE

ALLOW_RESOLVE_TO_FIFTH == FALSE

BASE_OCTAVE == 3

\* insertion of x into an ascending list (equal values stay next to each other)
RECURSIVE InsertSorted(_, _)
InsertSorted(s, x) ==
  IF s = <<>> THEN <<x>>
  ELSE IF x <= Head(s) THEN <<x>> \o s
  ELSE <<Head(s)>> \o InsertSorted(Tail(s), x)

\* sorted(list), duplicates kept
RECURSIVE Sorted(_)
Sorted(s) == IF s = <<>> THEN <<>> ELSE InsertSorted(Sorted(Tail(s)), Head(s))

\* sorted(set(...)) of a set of pitches
RECURSIVE SortedSet(_)
SortedSet(S) ==
  IF S = {} THEN <<>> ELSE <<SetMin(S)>> \o SortedSet(S \ {SetMin(S)})

\* while p < lo: p += 12
RECURSIVE RaiseTo(_, _)
RaiseTo(p, lo) == IF p < lo THEN RaiseTo(p + 12, lo) ELSE p

\* while p > hi: p -= 12
RECURSIVE LowerTo(_, _)
LowerTo(p, hi) == IF p > hi THEN LowerTo(p - 12, hi) ELSE p

_force_into_range_by_octaves(p, lo, hi) == LowerTo(RaiseTo(p, lo), hi)

\* while p in used and (p + 12) <= ABS_NOTE_CEIL: p += 12
RECURSIVE DedupeUp(_, _)
DedupeUp(p, used) ==
  IF p \in used /\ p + 12 <= ABS_NOTE_CEIL THEN DedupeUp(p + 12, used) ELSE p

\* while p in used and (p - 12) >= ABS_NOTE_FLOOR: p -= 12
RECURSIVE DedupeDown(_, _)
DedupeDown(p, used) ==
  IF p \in used /\ p - 12 >= ABS_NOTE_FLOOR THEN DedupeDown(p - 12, used) ELSE p

\* the loop of _sanitize_notes_strict over the sorted input, from index i on
RECURSIVE SanitizeLoop(_, _, _, _)
SanitizeLoop(v, i, used, outp) ==
  IF i > Len(v) THEN outp
  ELSE LET p == DedupeDown(DedupeUp(_force_into_range_by_octaves(
                      v[i], ABS_NOTE_FLOOR, ABS_NOTE_CEIL), used), used)
       IN SanitizeLoop(v, i + 1, used \cup {p}, Append(outp, p))

\* the final guarantee of _sanitize_notes_strict on out = sorted(out)
SanitizeGuarantee(outp) ==
  IF outp # <<>> /\ outp[1] < ABS_NOTE_FLOOR
    THEN LET shift == RaiseTo(outp[1], ABS_NOTE_FLOOR) - outp[1]
             capped == {IF outp[i] + shift < ABS_NOTE_CEIL THEN outp[i] + shift
                        ELSE ABS_NOTE_CEIL : i \in DOMAIN outp}
             ss == SortedSet(capped)
         IN Sorted([i \in DOMAIN ss |->
              _force_into_range_by_octaves(ss[i], ABS_NOTE_FLOOR, ABS_NOTE_CEIL)])
  ELSE outp

_sanitize_notes_strict(notes) ==
  SanitizeGuarantee(Sorted(SanitizeLoop(Sorted(notes), 1, {}, <<>>)))

\* a shift by k semitones where the code shifts by k octaves
ShiftBySemitones(notes, k) == [i \in DOMAIN notes |-> notes[i] + k]

\* [n + 12 * k for n in notes]
_oct_shift(notes, k) == [i \in DOMAIN notes |-> notes[i] + 12 * k]

\* the score of an octave shift in _prefer_bass_zone for the bass bb it gives
\* (pref_center is 46.0, both terms are whole numbers)
BassZoneDist(bb) ==
  (IF bb < BASS_PREF_MIN THEN (BASS_PREF_MIN - bb) * 25
   ELSE IF bb > BASS_PREF_MAX THEN (bb - BASS_PREF_MAX) * 25
   ELSE 0)
  + Abs(2 * bb - (BASS_PREF_MIN + BASS_PREF_MAX))

\* the octave shifts k of range(-4, 5) that _prefer_bass_zone keeps as options
\* for v = sorted(notes)
BassZoneShifts(v) ==
  {k \in -4..4 :
     /\ v[1] + 12 * k >= ABS_NOTE_FLOOR
     /\ v[Len(v)] + 12 * k <= ABS_NOTE_CEIL
     /\ v[1] + 12 * k >= BASS_HARD_MIN
     /\ v[1] + 12 * k <= BASS_HARD_MAX}

\* options.sort(key=dist) is stable: the first k of ks with the least dist wins
BestBassZoneShift(v, ks) ==
  CHOOSE k \in ks :
    \A k2 \in ks :
      \/ BassZoneDist(v[1] + 12 * k) < BassZoneDist(v[1] + 12 * k2)
      \/ /\ BassZoneDist(v[1] + 12 * k) = BassZoneDist(v[1] + 12 * k2)
         /\ k <= k2

\* _prefer_bass_zone from v = sorted(notes) on
PreferBassZoneSorted(v) ==
  IF BassZoneShifts(v) # {}
    THEN _sanitize_notes_strict(_oct_shift(v, BestBassZoneShift(v, BassZoneShifts(v))))
  ELSE _sanitize_notes_strict(v)

_prefer_bass_zone(notes) ==
  IF notes = <<>> THEN notes ELSE PreferBassZoneSorted(Sorted(notes))

\* chord_to_midi of the chord root_note + qual (no slash bass: the generator
\* emits none)
chord_to_midi(root_note, qual) ==
  LET root_midi == 12 * (BASE_OCTAVE + 1) + NOTE_TO_PC[root_note]
      tones == QUAL_TO_INTERVALS[qual]
  IN _prefer_bass_zone(_sanitize_notes_strict(
       [i \in DOMAIN tones |-> root_midi + tones[i]]))

span(notes) == IF notes = <<>> THEN 0 ELSE SetMax(Range(notes)) - SetMin(Range(notes))

\* center(notes), doubled: min + max
center2(notes) ==
  IF notes = <<>> THEN 2 * TARGET_CENTER
  ELSE SetMin(Range(notes)) + SetMax(Range(notes))

adjacent_gaps(notes) ==
  LET v == Sorted(notes)
  IN IF Len(v) >= 2 THEN [i \in 1..(Len(v) - 1) |-> v[i + 1] - v[i]] ELSE <<>>

\* the lower notes of the pairs of semitone_pairs
semitone_pairs(notes) == {a \in Range(notes) : a + 1 \in Range(notes)}

\* glue_ok: "yes" without a semitone pair, "no" with a pair below the cutoff,
\* else "draw" (rng.random() < GLUE_PROBABILITY decides)
glue_ok(notes) ==
  IF semitone_pairs(notes) = {} THEN "yes"
  ELSE IF \E a \in semitone_pairs(notes) : a < GLUE_LOW_CUTOFF THEN "no"
  ELSE "draw"

shared_pitch_count(a, b) == Cardinality(Range(a) \cap Range(b))

max_shared_allowed(prev_qual, cur_qual) ==
  IF prev_qual = "min11" \/ cur_qual = "min11" THEN MAX_SHARED_MIN11
  ELSE MAX_SHARED_DEFAULT

is_raw_shape(v, raw_notes) == Sorted(v) = Sorted(raw_notes)

allowed_resolution_pcs(key) ==
  {NOTE_TO_PC[SCALES[key][1]]}
  \cup (IF ALLOW_RESOLVE_TO_THIRD THEN {NOTE_TO_PC[SCALES[key][3]]} ELSE {})
  \cup (IF ALLOW_RESOLVE_TO_FIFTH THEN {NOTE_TO_PC[SCALES[key][5]]} ELSE {})

\* every index of cur_notes, whatever the previous chord holds
AllIndices(prev_notes, cur_notes, allowed_target_pcs) ==
  [i \in DOMAIN cur_notes |-> i]

\* indices (1-based, ascending) of the notes of cur_notes a semitone away from
\* a note of prev_notes and not of an allowed pitch class
bad_cross_semitone_indices(prev_notes, cur_notes, allowed_target_pcs) ==
  SelectSeq([i \in DOMAIN cur_notes |-> i],
            LAMBDA i : /\ (cur_notes[i] - 1 \in Range(prev_notes)
                           \/ cur_notes[i] + 1 \in Range(prev_notes))
                       /\ (cur_notes[i] % 12) \notin allowed_target_pcs)

\* tuple comparison of Python, on tuples of equal length
RECURSIVE TupleLess(_, _)
TupleLess(a, b) ==
  IF a = <<>> THEN FALSE
  ELSE IF Head(a) # Head(b) THEN Head(a) < Head(b)
  ELSE TupleLess(Tail(a), Tail(b))

\* the sort key of one option of repair_cross_semitones; the second entry is
\* abs(center - TARGET_CENTER) doubled, which orders the options the same way
RepairKey(prev_notes, test, allowed_target_pcs) ==
  <<Len(bad_cross_semitone_indices(prev_notes, test, allowed_target_pcs)),
    Abs(center2(test) - 2 * TARGET_CENTER),
    span(test),
    Abs(2 * test[1] - (BASS_PREF_MIN + BASS_PREF_MAX))>>

\* the options of one idx of "for idx in bad_idxs", in the order +12, -12
RepairOptions(v, idx) ==
  SelectSeq(<<v[idx] + 12, v[idx] - 12>>,
            LAMBDA n2 : n2 >= ABS_NOTE_FLOOR /\ n2 <= ABS_NOTE_CEIL /\ n2 \notin Range(v))

\* the body of the loop for one idx: the options are sorted stably, so the
\* second one wins only with a smaller key
RepairOne(prev_notes, v, allowed_target_pcs, idx) ==
  LET opts == RepairOptions(v, idx)
      Test(n2) == Sorted([v EXCEPT ![idx] = n2])
  IN IF opts = <<>> THEN v
     ELSE IF Len(opts) = 2
             /\ TupleLess(RepairKey(prev_notes, Test(opts[2]), allowed_target_pcs),
                          RepairKey(prev_notes, Test(opts[1]), allowed_target_pcs))
       THEN Test(opts[2])
     ELSE Test(opts[1])

\* "for idx in bad_idxs" from position j of bad_idxs on: v changes under the
\* loop while the indices stay those computed before it
RECURSIVE RepairPass(_, _, _, _, _, _)
RepairPass(prev_notes, v, allowed_target_pcs, bad_idxs, j, changed_any) ==
  IF j > Len(bad_idxs) THEN [v |-> v, changed_any |-> changed_any]
  ELSE RepairPass(prev_notes,
                  RepairOne(prev_notes, v, allowed_target_pcs, bad_idxs[j]),
                  allowed_target_pcs, bad_idxs, j + 1,
                  changed_any \/ RepairOptions(v, bad_idxs[j]) # <<>>)

\* "for _ in range(max_iters)" with iters rounds left
RECURSIVE RepairIters(_, _, _, _)
RepairIters(prev_notes, v, allowed_target_pcs, iters) ==
  LET bad_idxs == bad_cross_semitone_indices(prev_notes, v, allowed_target_pcs)
      pass == RepairPass(prev_notes, v, allowed_target_pcs, bad_idxs, 1, FALSE)
  IN IF iters = 0 \/ bad_idxs = <<>> THEN v
     ELSE IF ~pass.changed_any THEN pass.v
     ELSE RepairIters(prev_notes, pass.v, allowed_target_pcs, iters - 1)

REPAIR_MAX_ITERS == 8

repair_cross_semitones(prev_notes, cur_notes, allowed_target_pcs) ==
  _sanitize_notes_strict(
    RepairIters(prev_notes, Sorted(cur_notes), allowed_target_pcs, REPAIR_MAX_ITERS))

spacing_penalty(notes) ==
  LET gaps == adjacent_gaps(notes)
  IN SumSeq([i \in DOMAIN gaps |->
       (IF gaps[i] < MIN_ADJ_GAP THEN (MIN_ADJ_GAP - gaps[i]) * 900 ELSE 0)
       + (IF gaps[i] > MAX_ADJ_GAP THEN (gaps[i] - MAX_ADJ_GAP) * 420 ELSE 0)
       + (IF gaps[i] > HARD_MAX_ADJ_GAP THEN (gaps[i] - HARD_MAX_ADJ_GAP) * 1200 ELSE 0)])

bass_penalty(prev, cur) ==
  IF prev = <<>> THEN 0
  ELSE LET jump == Abs(SetMin(Range(cur)) - SetMin(Range(prev)))
       IN IF jump <= MAX_BASS_JUMP THEN 0 ELSE (jump - MAX_BASS_JUMP) * 260

\* the least total distance over the pairings of p[i..] with the entries of c
\* whose indices are not in taken (itertools.permutations of c)
RECURSIVE MinPairing(_, _, _, _)
MinPairing(p, c, i, taken) ==
  IF i > Len(p) THEN 0
  ELSE SetMin({Abs(c[j] - p[i]) + MinPairing(p, c, i + 1, taken \cup {j}) :
                 j \in DOMAIN c \ taken})

_min_assignment_move(prev, cur) ==
  LET p == Sorted(prev)
      c == Sorted(cur)
  IN IF p = <<>> \/ c = <<>> THEN 0
     ELSE IF Len(p) # Len(c)
       THEN SumSeq([i \in DOMAIN c |-> SetMin({Abs(c[i] - p[j]) : j \in DOMAIN p})])
     ELSE MinPairing(p, c, 1, {})

\* inv = inv[1:] + [inv[0] + 12], j times
RECURSIVE Inversion(_, _)
Inversion(base, j) ==
  IF j = 0 THEN base
  ELSE LET inv == Inversion(base, j - 1)
       IN Append(Tail(inv), Head(inv) + 12)

\* add(v) of generate_voicing_candidates: the tuple added, if any
CandidateAdd(v, n) ==
  LET s == _sanitize_notes_strict(v)
  IN IF Len(s) = n /\ s[1] >= BASS_HARD_MIN /\ s[1] <= BASS_HARD_MAX THEN {s} ELSE {}

\* the lists generate_voicing_candidates hands to add(_prefer_bass_zone(.)):
\* base, its inversions, the spreads (top k up, bottom k down), the shifts
CandidateShapes(base) ==
  LET n == Len(base)
  IN {base}
     \cup {Inversion(base, j) : j \in 1..(n - 1)}
     \cup {[i \in 1..n |-> IF i > n - k THEN base[i] + 12 ELSE base[i]] : k \in 1..(n - 1)}
     \cup {[i \in 1..n |-> IF i <= k THEN base[i] - 12 ELSE base[i]] : k \in 1..(n - 1)}
     \cup {[i \in 1..n |-> base[i] + shift] : shift \in {-12, 0, 12}}

\* "if not candidates: candidates.add(tuple(_prefer_bass_zone(base)))"
CandidatesOrBase(base, candidates) ==
  IF Len(base) = 0 THEN {}
  ELSE IF candidates # {} THEN candidates
  ELSE {_prefer_bass_zone(base)}

\* generate_voicing_candidates from base = _sanitize_notes_strict(raw_notes) on
CandidatesOfBase(base) ==
  CandidatesOrBase(base,
    UNION {CandidateAdd(_prefer_bass_zone(sh), Len(base)) : sh \in CandidateShapes(base)})

\* the candidate set (a Python set turned into a list in its iteration order)
generate_voicing_candidates(raw_notes) ==
  CandidatesOfBase(_sanitize_notes_strict(raw_notes))

\* 1e12 of cost(), doubled like every cost, cut to the integers of the checker;
\* it stays above every other cost
COST_BELOW_FLOOR == 2000000000

\* cost(v) of choose_best_voicing from
\* v = _prefer_bass_zone(_sanitize_notes_strict(v)) on, doubled (center() has
\* halves)
CostOfClean2(v, prev_voicing, raw_clean) ==
  LET b == SetMin(Range(v))
      bass_pref_pen == IF b < BASS_PREF_MIN THEN (BASS_PREF_MIN - b) * 300
                       ELSE IF b > BASS_PREF_MAX THEN (b - BASS_PREF_MAX) * 300
                       ELSE 0
      reg_pen2 == Abs(center2(v) - 2 * TARGET_CENTER) * 120
      sp == span(v)
      span_pen == Abs(sp - IDEAL_SPAN) * 80
                  + (IF sp < MIN_SPAN THEN (MIN_SPAN - sp) * 1200 ELSE 0)
                  + (IF sp > MAX_SPAN THEN (sp - MAX_SPAN) * 800 ELSE 0)
      space_pen == spacing_penalty(v)
      move_pen == IF prev_voicing = <<>> THEN 0
                  ELSE _min_assignment_move(prev_voicing, v) * 3
      b_pen == bass_penalty(prev_voicing, v)
      repeat_pen == IF prev_voicing # <<>> /\ Sorted(prev_voicing) = Sorted(v)
                      THEN 900 ELSE 0
      raw_pen == IF ENFORCE_NOT_RAW_WHEN_VOICING /\ is_raw_shape(v, raw_clean)
                   THEN RAW_PENALTY ELSE 0
  IN IF b < ABS_NOTE_FLOOR THEN COST_BELOW_FLOOR
     ELSE reg_pen2 + 2 * (bass_pref_pen + span_pen + space_pen + move_pen
                          + b_pen + repeat_pen + raw_pen)

VoicingCost2(v0, prev_voicing, raw_clean) ==
  CostOfClean2(_prefer_bass_zone(_sanitize_notes_strict(v0)), prev_voicing, raw_clean)

\* raw_clean of choose_best_voicing
RawClean(raw_notes) == _prefer_bass_zone(_sanitize_notes_strict(raw_notes))

\* the candidates glue_ok decides by a draw
GlueDraws(raw_notes) ==
  {v \in generate_voicing_candidates(RawClean(raw_notes)) : glue_ok(v) = "draw"}

\* [c for c in cands if glue_ok(c, rng)] when the draws pass for the
\* candidates in kept and fail for the others
GlueFiltered(cands, kept) ==
  {v \in cands : glue_ok(v) = "yes" \/ (glue_ok(v) = "draw" /\ v \in kept)}

\* "if filtered: cands = filtered": a filter that leaves nothing is skipped
FilteredOr(filtered, cands) == IF filtered # {} THEN filtered ELSE cands

\* cands after the glue filter
CandsGlued(cands, kept) == FilteredOr(GlueFiltered(cands, kept), cands)

\* cands after the repair; prev_voicing = <<>> is None
Repaired(prev_voicing, cands, key_name) ==
  IF prev_voicing # <<>>
    THEN {repair_cross_semitones(prev_voicing, v, allowed_resolution_pcs(key_name)) :
            v \in cands}
  ELSE cands

\* cands after the glue filter and the repair
CandsRepaired(prev_voicing, raw_notes, key_name, kept) ==
  Repaired(prev_voicing,
           CandsGlued(generate_voicing_candidates(RawClean(raw_notes)), kept),
           key_name)

\* the shared tone cap filter
CapFiltered(prev_voicing, prev_qual, cur_qual, cands) ==
  {v \in cands : shared_pitch_count(prev_voicing, v)
                   <= max_shared_allowed(prev_qual, cur_qual)}

\* cands after the shared tone cap
CandsCapped(prev_voicing, prev_qual, cur_qual, cands) ==
  IF prev_voicing # <<>>
    THEN FilteredOr(CapFiltered(prev_voicing, prev_qual, cur_qual, cands), cands)
  ELSE cands

\* the candidates cands.sort(key=cost) can put first: those of least cost (cands
\* is a list in the iteration order of a set, sorted stably)
LeastCost(cands, prev_voicing, raw_clean) ==
  LET cost == [v \in cands |-> VoicingCost2(v, prev_voicing, raw_clean)]
  IN {v \in cands : \A w \in cands : cost[v] <= cost[w]}

\* best = cands[0] if cands else raw_clean, then the last clean-up
BestOf(cands, prev_voicing, raw_clean) ==
  IF cands = {} THEN {RawClean(raw_clean)}
  ELSE {RawClean(v) : v \in LeastCost(cands, prev_voicing, raw_clean)}

\* every voicing choose_best_voicing can return under the draws kept
choose_best_voicing(prev_voicing, prev_qual, cur_qual, raw_notes, key_name, kept) ==
  BestOf(CandsCapped(prev_voicing, prev_qual, cur_qual,
                     CandsRepaired(prev_voicing, raw_notes, key_name, kept)),
         prev_voicing, RawClean(raw_notes))

MAX_OCTAVE_SHIFTS == 6

BASS_MIN_MIDI == 40

BASS_MAX_MIDI == 52

NOTE_MIN_MIDI == 40

NOTE_MAX_MIDI == 88

_shift_octaves(notes, octs) == {x + 12 * octs : x \in notes}

\* for _ in range(left): if min(v) >= lo: break; v = shift up one octave
RECURSIVE LiftWhole(_, _, _)
LiftWhole(v, lo, left) ==
  IF left = 0 \/ SetMin(v) >= lo THEN v
  ELSE LiftWhole(_shift_octaves(v, 1), lo, left - 1)

\* the hard clamp: every note below the floor is pushed up on its own
ClampEach(v) ==
  IF SetMin(v) < NOTE_MIN_MIDI THEN {RaiseTo(x, NOTE_MIN_MIDI) : x \in v} ELSE v

\* the loop that pulls the bass down into the window while the floor allows
RECURSIVE PullBass(_, _)
PullBass(v, left) ==
  IF left = 0 \/ SetMin(v) <= BASS_MAX_MIDI THEN v
  ELSE IF SetMin(_shift_octaves(v, -1)) >= NOTE_MIN_MIDI
    THEN PullBass(_shift_octaves(v, -1), left - 1)
  ELSE v

\* the ceiling loop
RECURSIVE PullTop(_, _)
PullTop(v, left) ==
  IF left = 0 \/ SetMax(v) <= NOTE_MAX_MIDI THEN v
  ELSE IF SetMin(_shift_octaves(v, -1)) < NOTE_MIN_MIDI THEN v
  ELSE PullTop(_shift_octaves(v, -1), left - 1)

\* _enforce_register without its floor steps: the bass window and the ceiling
\* loop alone
EnforceRegisterNoFloor(v0) ==
  PullTop(PullBass(v0, MAX_OCTAVE_SHIFTS), MAX_OCTAVE_SHIFTS)

\* _enforce_register, on the set of the notes (the code keeps sorted(set(...)))
EnforceRegisterSet(v0) ==
  LET v1 == ClampEach(LiftWhole(v0, NOTE_MIN_MIDI, MAX_OCTAVE_SHIFTS))
      v2 == LiftWhole(v1, BASS_MIN_MIDI, MAX_OCTAVE_SHIFTS)
      v3 == PullBass(v2, MAX_OCTAVE_SHIFTS)
      v4 == PullTop(v3, MAX_OCTAVE_SHIFTS)
  IN ClampEach(LiftWhole(v4, NOTE_MIN_MIDI, MAX_OCTAVE_SHIFTS))

_enforce_register(notes) ==
  IF notes = <<>> THEN <<>> ELSE SortedSet(EnforceRegisterSet(Range(notes)))

_pcset(notes) == {notes[i] % 12 : i \in DOMAIN notes}

_shared_pitch_class(prev, cur) == Cardinality(_pcset(prev) \cap _pcset(cur))

_adjacent_pc(prev, cur, dist) ==
  LET targets == UNION {{(x + d) % 12, (x - d) % 12} : x \in _pcset(prev), d \in 1..dist}
  IN IF _pcset(prev) = {} \/ _pcset(cur) = {} THEN 0
     ELSE Cardinality(_pcset(cur) \cap targets)

_voice_leading_cost(prev, cur) == _min_assignment_move(prev, cur)

SEARCH_SHIFTS == <<-2, -1, 0, 1, 2>>

\* score of the candidate cand after prev
RegisterScore(prev, cand) ==
  <<_shared_pitch_class(prev, cand) * 2 + _adjacent_pc(prev, cand, 1) * 3
      + _adjacent_pc(prev, cand, 2),
    0 - _voice_leading_cost(prev, cand),
    0 - Abs(cand[1] - prev[1])>>

\* the candidate of the first shift of search_shifts, whatever its score
FirstShift(prev, cur_raw) == _enforce_register(_oct_shift(cur_raw, SEARCH_SHIFTS[1]))

\* the candidate kept by "if best_score is None or score > best_score": the
\* first shift of search_shifts whose score no other shift beats
BestShift(prev, cur_raw) ==
  LET Cand(j) == _enforce_register(_oct_shift(cur_raw, SEARCH_SHIFTS[j]))
      best == CHOOSE j \in DOMAIN SEARCH_SHIFTS :
                /\ \A j2 \in DOMAIN SEARCH_SHIFTS :
                     ~TupleLess(RegisterScore(prev, Cand(j)), RegisterScore(prev, Cand(j2)))
                /\ \A j2 \in 1..(j - 1) :
                     TupleLess(RegisterScore(prev, Cand(j2)), RegisterScore(prev, Cand(j)))
  IN Cand(best)

\* the loop of optimize_progression_register from chord i on
RECURSIVE OptimizeFrom(_, _, _, _)
OptimizeFrom(chords_notes, i, prev, outp) ==
  IF i > Len(chords_notes) THEN outp
  ELSE LET best == BestShift(prev, chords_notes[i])
       IN OptimizeFrom(chords_notes, i + 1, best, Append(outp, best))

optimize_progression_register(chords_notes) ==
  IF chords_notes = <<>> THEN chords_notes
  ELSE OptimizeFrom(chords_notes, 2, _enforce_register(chords_notes[1]),
                    <<_enforce_register(chords_notes[1])>>)

GLOBAL_TRANSPOSE == 12


\* ------------------------------------------------------------------------
\* Inputs explored
\* ------------------------------------------------------------------------
Only(q, w) == [x \in Qualities |-> IF x = q THEN w ELSE 0]

AllZero == [x \in Qualities |-> 0]

\* a sus-heavy balance (the four sus factors average 1.35 or more) that still
\* leaves two non-sus qualities enabled
SusHeavy ==
  ("sus2" :> 100) @@ ("sus2add9" :> 100) @@ ("sus4add9" :> 70)
  @@ ("add9" :> 1) @@ ("maj9" :> 1) @@ AllZero

QuotaSizes == {100, 200}

\* sus weights whose factors 0, 1.7, 1.82 and 1.88 average 1.35, beside maj
SusBoundary ==
  ("sus4" :> 85) @@ ("sus2add9" :> 91) @@ ("sus4add9" :> 94) @@ ("maj" :> 50)
  @@ AllZero

\* two sus qualities at moderate weight beside add9 and min11
SusModerate ==
  ("sus2" :> 50) @@ ("sus4" :> 50) @@ ("add9" :> 50) @@ ("min11" :> 50) @@ AllZero

Inputs ==
  {[n |-> 1, chord_balance |-> b, ban_set |-> {}] :
     b \in {NoBalance, Only("add9", 50), Only("min9", 50), AllZero, SusHeavy,
            SusBoundary, SusModerate}}
  \cup
  {[n |-> 2, chord_balance |-> AllZero, ban_set |-> {}]}
  \cup
  {[n |-> k, chord_balance |-> Only("maj9", 50), ban_set |-> bs] :
     k \in (1..MaxSlots) \cup QuotaSizes,
     bs \in {{}, {<<"Cmaj9", "Fmaj9">>}}}

\* ------------------------------------------------------------------------
\* State of one run of generate_progressions
\* ------------------------------------------------------------------------
VARIABLES
  n,                  \* requested batch size
  chord_balance,      \* the balance map, or NoBalance
  ban_set,            \* banned chord sequences
  keys,               \* keys[1..] of the assigned key list, as far as consumed
  tries,              \* attempts made for the current slot
  out,                \* accepted progressions: [chords, durs, key]
  hist,               \* per accepted progression: what was sampled and built for it
  used_exact,         \* chord sequences already accepted
  pattern_counts,     \* fingerprint -> uses (absent = 0)
  pattern_dupe_used,
  low_sim_total,
  qual_usage,         \* quality -> chords emitted (absent = 0)
  last,               \* what the latest attempt did
  pc                  \* "slot", "try", "done", "config_error", "exhausted"

\* State of one run of write_progression_midi
VARIABLES
  key_name,           \* key of the progression written
  revoice,            \* the revoice flag
  chords,             \* chords read so far, each <<root note, quality>>
  raw,                \* raw[i] = _enforce_register(chord_to_midi(chords[i]))
  voiced,             \* the voiced list (revoice only)
  filters,            \* per voiced chord: which filters of choose_best_voicing
                      \* were skipped because they left no candidate
  out_notes,          \* the list after optimize_progression_register
  pitches,            \* the pitches of the notes written, per chord
  wpc                 \* "idle", "raw", "voice", "written"

gen_vars == <<n, chord_balance, ban_set, keys, tries, out, hist, used_exact,
              pattern_counts, pattern_dupe_used, low_sim_total, qual_usage, last, pc>>

voice_vars == <<key_name, revoice, chords, raw, voiced, filters, out_notes, pitches, wpc>>

VARIABLES
  rng,                \* the generator random.Random(seed) of the running call:
                      \* log, the draws of the stream of the seed seen so far, by
                      \* position; start, the position the generator started
                      \* at; used, the draws made since the key assignment
  first               \* <<what the first of two calls returned>>, <<>> before

seed_vars == <<rng, first>>

\* State of one function of the voicing engine run on its own
VARIABLES
  frame               \* the frame of the call: its arguments, its locals as the
                      \* statements reached leave them, and its result;
                      \* NoFrame when no function is run on its own

frame_vars == <<frame>>

vars == <<gen_vars, voice_vars, seed_vars, frame_vars, ui_vars>>

NoFrame == [fn |-> "none"]

\* no function is run on its own
FrameIdle == frame = NoFrame

\* the profile the page starts with
ProfileDefault == voicing_profile = DEFAULT_PROFILE

\* a stream nothing was drawn from
EmptyStream == [log |-> <<>>, start |-> 0, used |-> 0]

\* no call is made twice
SeedIdle ==
  /\ rng = EmptyStream
  /\ first = <<>>

\* no file is being written
WriterIdle ==
  /\ key_name = ""
  /\ revoice = FALSE
  /\ chords = <<>>
  /\ raw = <<>>
  /\ voiced = <<>>
  /\ filters = <<>>
  /\ out_notes = <<>>
  /\ pitches = <<>>
  /\ wpc = "idle"

\* Counter lookup: a missing key counts 0
CounterGet(c, k) == IF k \in DOMAIN c THEN c[k] ELSE 0

CounterAdd(c, k) == (k :> (CounterGet(c, k) + 1)) @@ c

\* only the first key of ks is counted
CounterAddFirst(c, ks) == IF ks = <<>> THEN c ELSE CounterAdd(c, Head(ks))

RECURSIVE CounterAddAll(_, _)
CounterAddAll(c, ks) ==
  IF ks = <<>> THEN c ELSE CounterAddAll(CounterAdd(c, Head(ks)), Tail(ks))

\* int(math.floor(n * MAX_PATTERN_DUPLICATE_RATIO))
max_pattern_dupes == n \div PATTERN_DUPLICATE_DIVISOR

\* generate_progressions entered with the arguments inp, before its loop
GeneratorStart(inputs) ==
  /\ \E inp \in inputs :
       /\ n = inp.n
       /\ chord_balance = inp.chord_balance
       /\ ban_set = inp.ban_set
  /\ keys = <<>>
  /\ tries = 0
  /\ out = <<>>
  /\ hist = <<>>
  /\ used_exact = {}
  /\ pattern_counts = <<>>
  /\ pattern_dupe_used = 0
  /\ low_sim_total = 0
  /\ qual_usage = <<>>
  /\ last = "none"
  /\ pc = "slot"

Init ==
  /\ ProfileDefault
  /\ GeneratorStart(Inputs)
  /\ WriterIdle
  /\ SeedIdle
  /\ FrameIdle

\* ------------------------------------------------------------------------
\* generate_progressions: the slot loop and the attempt loop
\* ------------------------------------------------------------------------
\* the chord counts the model follows (see MaxChords)
ChordCountExplored(m) ==
  IF ~HasBalance(chord_balance) THEN m <= MaxChords
  ELSE IF sus_heavy(chord_balance) THEN m <= MaxChordsHeavy
  ELSE IF Len(_enabled_qualities(chord_balance)) > 1 THEN m <= MaxChordsMixed
  ELSE TRUE

\* the keys the assigned list can hold next
KeyOptions == {k \in ModelKeys : IsKeyListPrefix(Append(keys, k), n)}

\* for i in range(n): key = keys[i]; deg_allowed = _build_deg_allowed(...),
\* when keys[i] is k
StartSlotWith(k) ==
  /\ pc = "slot"
  /\ Len(out) < n
  /\ Len(out) < MaxSlots
  /\ keys' = Append(keys, k)
  /\ pc' = IF ConfigError(chord_balance) THEN "config_error" ELSE "try"
  /\ tries' = 0
  /\ last' = "none"
  /\ UNCHANGED <<n, chord_balance, ban_set, out, hist, used_exact, pattern_counts,
                 pattern_dupe_used, low_sim_total, qual_usage>>
  /\ UNCHANGED voice_vars

StartSlot ==
  /\ \E k \in KeyOptions : StartSlotWith(k)
  /\ UNCHANGED seed_vars
  /\ UNCHANGED frame_vars
  /\ UNCHANGED ui_vars

\* mutant: no test against used_exact
VerdictNoExact(res) ==
  IF ~res.ok THEN "rejected"
  ELSE IF ban_set # {} /\ progression_is_banned(res.key, res.degs, res.quals, ban_set)
    THEN "banned"
  ELSE IF /\ CounterGet(pattern_counts, _pattern_fingerprint(res.degs, res.quals))
               >= PATTERN_MAX_REPEATS
          /\ pattern_dupe_used >= max_pattern_dupes
    THEN "over_quota"
  ELSE "accepted"

\* mutant: the allowance test is > instead of >=
VerdictLateQuota(res) ==
  IF ~res.ok THEN "rejected"
  ELSE IF ban_set # {} /\ progression_is_banned(res.key, res.degs, res.quals, ban_set)
    THEN "banned"
  ELSE IF res.chords \in used_exact THEN "duplicate"
  ELSE IF /\ CounterGet(pattern_counts, _pattern_fingerprint(res.degs, res.quals))
               >= PATTERN_MAX_REPEATS
          /\ pattern_dupe_used > max_pattern_dupes
    THEN "over_quota"
  ELSE "accepted"

\* the verdict without the ban list lookup
VerdictNoBan(res) ==
  IF ~res.ok THEN "rejected"
  ELSE IF res.chords \in used_exact THEN "duplicate"
  ELSE IF /\ CounterGet(pattern_counts, _pattern_fingerprint(res.degs, res.quals))
               >= PATTERN_MAX_REPEATS
          /\ pattern_dupe_used >= max_pattern_dupes
    THEN "over_quota"
  ELSE "accepted"

\* what the batch loop does with a builder result, given the batch state
Verdict(res) ==
  IF ~res.ok THEN "rejected"
  ELSE IF ban_set # {} /\ progression_is_banned(res.key, res.degs, res.quals, ban_set)
    THEN "banned"
  ELSE IF res.chords \in used_exact THEN "duplicate"
  ELSE IF /\ CounterGet(pattern_counts, _pattern_fingerprint(res.degs, res.quals))
               >= PATTERN_MAX_REPEATS
          /\ pattern_dupe_used >= max_pattern_dupes
    THEN "over_quota"
  ELSE "accepted"

\* attempts this step stands for: one, or the whole rest of the budget once
\* MaxTriesStepped rejections were counted (a rejection changes nothing but
\* the counter, so it can repeat until the budget is spent)
RejectRun == IF tries < MaxTriesStepped THEN 1 ELSE MAX_TRIES_PER_PROG - tries

\* the (total, m) pairs _pick_valid_total_and_m can return that are followed
TotalsExplored == {x \in _pick_valid_total_and_m : ChordCountExplored(x[2])}

\* what _build_progression can return in the current slot for degs and total
BuildOptions(degs, total_bars) ==
  _build_progression(keys[Len(keys)], degs, total_bars,
                     _build_deg_allowed(chord_balance, keys[Len(keys)]), chord_balance)

\* one pass of the attempt loop in which (total, m) = tm is sampled, then the
\* template degs, and _build_progression returns res
AttemptWith(tm, degs, res) ==
  /\ pc = "try"
  /\ tries < MAX_TRIES_PER_PROG
  /\ LET     key == keys[Len(keys)]
              v == Verdict(res)
              fp == _pattern_fingerprint(res.degs, res.quals)
              roots == [j \in 1..Len(res.degs) |-> SCALES[key][res.degs[j] + 1]]
          IN /\ last' = v
             /\ IF v = "accepted"
                  THEN /\ used_exact' = used_exact \cup {res.chords}
                       /\ pattern_dupe_used' =
                            IF CounterGet(pattern_counts, fp) >= 1
                              THEN pattern_dupe_used + 1 ELSE pattern_dupe_used
                       /\ pattern_counts' = CounterAdd(pattern_counts, fp)
                       /\ low_sim_total' = low_sim_total
                            + _low_sim_count_loop(roots, res.quals, ENFORCE_LOOP_OK)
                       /\ qual_usage' = CounterAddAll(qual_usage, res.quals)
                       /\ out' = Append(out, [chords |-> res.chords,
                                              durs |-> res.durs, key |-> key])
                       /\ hist' = Append(hist, [degs |-> res.degs, quals |-> res.quals,
                                                 total_bars |-> tm[1],
                                                 template |-> degs])
                       /\ tries' = 0
                       /\ pc' = "slot"
                  ELSE /\ tries' = tries + RejectRun
                       /\ UNCHANGED <<used_exact, pattern_dupe_used, pattern_counts,
                                      low_sim_total, qual_usage, out, hist, pc>>
  /\ UNCHANGED <<n, chord_balance, ban_set, keys>>
  /\ UNCHANGED voice_vars

Attempt ==
  /\ pc = "try"
  /\ \E tm \in TotalsExplored :
     \E degs \in _pick_template_degs(tm[2]) :
     \E res \in BuildOptions(degs, tm[1]) : AttemptWith(tm, degs, res)
  /\ UNCHANGED seed_vars
  /\ UNCHANGED frame_vars
  /\ UNCHANGED ui_vars

\* the attempt loop left by a return of what was built so far
ReturnPartial ==
  /\ pc = "try"
  /\ tries = MAX_TRIES_PER_PROG
  /\ pc' = "done"
  /\ UNCHANGED <<n, chord_balance, ban_set, keys, tries, out, hist, used_exact,
                 pattern_counts, pattern_dupe_used, low_sim_total, qual_usage, last>>
  /\ UNCHANGED voice_vars
  /\ UNCHANGED seed_vars
  /\ UNCHANGED frame_vars
  /\ UNCHANGED ui_vars

\* if built is None: raise RuntimeError("Could not build progression ...")
RaiseExhausted ==
  /\ pc = "try"
  /\ tries = MAX_TRIES_PER_PROG
  /\ pc' = "exhausted"
  /\ UNCHANGED <<n, chord_balance, ban_set, keys, tries, out, hist, used_exact,
                 pattern_counts, pattern_dupe_used, low_sim_total, qual_usage, last>>
  /\ UNCHANGED voice_vars
  /\ UNCHANGED seed_vars
  /\ UNCHANGED frame_vars
  /\ UNCHANGED ui_vars

\* return out, pattern_dupe_used, max_pattern_dupes, low_sim_total, qual_usage
Return ==
  /\ pc = "slot"
  /\ Len(out) = n
  /\ pc' = "done"
  /\ UNCHANGED <<n, chord_balance, ban_set, keys, tries, out, hist, used_exact,
                 pattern_counts, pattern_dupe_used, low_sim_total, qual_usage, last>>
  /\ UNCHANGED voice_vars
  /\ UNCHANGED seed_vars
  /\ UNCHANGED frame_vars
  /\ UNCHANGED ui_vars

Next == StartSlot \/ Attempt \/ RaiseExhausted \/ Return

Spec == Init /\ [][Next]_vars

\* ------------------------------------------------------------------------
\* generate_progressions called twice with the same arguments
\* ------------------------------------------------------------------------
\* A draw of random.Random is a function of the seed, of the number of draws
\* made before it and of the call that draws (rng.choices over these items,
\* rng.shuffle of this list). The stream of the seed is met as the calls draw
\* from it: a position drawn from before, by the same call, returns what it
\* returned then; any other draw can return each of its options.
\* _pick_keys_even draws first: the key of slot i stands at position i after
\* the start, the draws of the attempts follow, three to an attempt (total and
\* length, template, and the draws of _build_progression taken together).

\* the module-level generator, seeded once and shared by the calls: a call
\* goes on where the call before stopped
RandomShared(r) == [log |-> r.log, start |-> r.start + n + r.used, used |-> 0]

\* rng = random.Random(seed): a generator of its own at the start of the stream
Random(r) == [log |-> r.log, start |-> 0, used |-> 0]

\* what the draw at position p can return to call, whose options are given
Draw(p, call, options) ==
  IF /\ p \in DOMAIN rng.log
     /\ rng.log[p].call.op = call.op
     /\ rng.log[p].call.args = call.args
    THEN {rng.log[p].ret}
  ELSE options

\* the stream seen so far once position p returned ret to call
Reveal(log, p, call, ret) ==
  IF p \in DOMAIN log THEN log ELSE (p :> [call |-> call, ret |-> ret]) @@ log

\* the arguments of the calls made twice: the small batches of Inputs under a
\* balance that enables one quality at most
SeededInputs ==
  {inp \in Inputs : /\ inp.n <= MaxSeededBatch
                    /\ HasBalance(inp.chord_balance)
                    /\ ~sus_heavy(inp.chord_balance)
                    /\ Len(_enabled_qualities(inp.chord_balance)) <= 1}

InitSeeded ==
  /\ ProfileDefault
  /\ GeneratorStart(SeededInputs)
  /\ WriterIdle
  /\ rng = Random(EmptyStream)
  /\ first = <<>>
  /\ FrameIdle

\* keys = _pick_keys_even(n, rng), the entry of the slot that starts
SeededStartSlot ==
  /\ LET p == rng.start + Len(keys) + 1
         call == [op |-> "_pick_keys_even", args |-> <<n, keys>>]
     IN \E k \in Draw(p, call, KeyOptions) :
          /\ StartSlotWith(k)
          /\ rng' = [rng EXCEPT !.log = Reveal(@, p, call, k)]
  /\ UNCHANGED first
  /\ UNCHANGED frame_vars
  /\ UNCHANGED ui_vars

\* one pass of the attempt loop, its draws in the order of the code
SeededAttempt ==
  /\ pc = "try"
  /\ LET p == rng.start + n + rng.used
         c1 == [op |-> "_pick_valid_total_and_m", args |-> <<>>]
     IN \E tm \in Draw(p + 1, c1, TotalsExplored) :
          LET c2 == [op |-> "_pick_template_degs", args |-> <<tm[2]>>]
          IN \E degs \in Draw(p + 2, c2, _pick_template_degs(tm[2])) :
               LET c3 == [op |-> "_build_progression",
                          args |-> <<keys[Len(keys)], degs, tm[1]>>]
               IN \E res \in Draw(p + 3, c3, BuildOptions(degs, tm[1])) :
                    /\ AttemptWith(tm, degs, res)
                    /\ rng' = [rng EXCEPT
                                 !.log = Reveal(Reveal(Reveal(@, p + 1, c1, tm),
                                                       p + 2, c2, degs),
                                                p + 3, c3, res),
                                 !.used = @ + 3]
  /\ UNCHANGED first
  /\ UNCHANGED frame_vars
  /\ UNCHANGED ui_vars

\* what the call returns, or the error it ends by
Returned ==
  [pc |-> pc, out |-> out, pattern_dupe_used |-> pattern_dupe_used,
   max_pattern_dupes |-> max_pattern_dupes, low_sim_total |-> low_sim_total,
   qual_usage |-> qual_usage]

\* the call is over, with a return or an error
CallOver == pc \in {"done", "exhausted", "config_error"}

\* the second call, with the arguments and the seed of the first
CallAgain ==
  /\ CallOver
  /\ first = <<>>
  /\ first' = <<Returned>>
  /\ rng' = Random(rng)
  /\ keys' = <<>>
  /\ tries' = 0
  /\ out' = <<>>
  /\ hist' = <<>>
  /\ used_exact' = {}
  /\ pattern_counts' = <<>>
  /\ pattern_dupe_used' = 0
  /\ low_sim_total' = 0
  /\ qual_usage' = <<>>
  /\ last' = "none"
  /\ pc' = "slot"
  /\ UNCHANGED <<n, chord_balance, ban_set>>
  /\ UNCHANGED voice_vars
  /\ UNCHANGED frame_vars
  /\ UNCHANGED ui_vars

NextSeeded == SeededStartSlot \/ SeededAttempt \/ RaiseExhausted \/ Return \/ CallAgain

SpecSeeded == InitSeeded /\ [][NextSeeded]_vars

\* ------------------------------------------------------------------------
\* Properties of generate_progressions
\* ------------------------------------------------------------------------
\* the p-th accepted progression, chord j: root note, quality, pitch classes
RootOf(p, j) == SCALES[out[p].key][hist[p].degs[j] + 1]

QualOf(p, j) == hist[p].quals[j]

PcsOf(p, j) ==
  {(NOTE_TO_PC[RootOf(p, j)] + QUAL_TO_INTERVALS[QualOf(p, j)][x]) % 12 :
      x \in DOMAIN QUAL_TO_INTERVALS[QualOf(p, j)]}

ScalePcs(key) == {NOTE_TO_PC[SCALES[key][d]] : d \in 1..7}

ZeroWeight(q) == HasBalance(chord_balance) /\ BalanceGet(chord_balance, q) = 0

\* C1: every chord of every accepted progression is the symbol of a root and
\* a quality whose pitch classes all lie in the scale of the progression's
\* key, chords rewritten by the repair included.
C1_AllChordsDiatonic ==
  \A p \in 1..Len(out) : \A j \in 1..Len(out[p].chords) :
    /\ out[p].chords[j] = RootOf(p, j) \o QualOf(p, j)
    /\ PcsOf(p, j) \subseteq ScalePcs(out[p].key)

\* a returned batch with a chord the repair rewrote: its template repeats a
\* degree and the repeated chord carries a quality the balance never samples
C1_Witness ==
  /\ pc = "done"
  /\ \E p \in 1..Len(out) : \E j \in 2..Len(out[p].chords) :
       /\ \E k \in 1..(j - 1) : hist[p].template[k] = hist[p].template[j]
       /\ ZeroWeight(QualOf(p, j))

\* C2: adjacent chords and the wrap-around pair of every accepted progression
\* share a pitch class, and the low-similarity total stays 0.
C2_SharedTonesOnLoop ==
  /\ \A p \in 1..Len(out) : \A j \in 1..Len(out[p].chords) :
       PcsOf(p, j) \cap PcsOf(p, (j % Len(out[p].chords)) + 1) # {}
  /\ low_sim_total = 0

\* a returned four-chord progression of the sus-heavy regime that starts on a
\* sus chord and ends on another root: its wrap-around pair is a pair of its
\* own, tested by the wrap-around tests only
C2_Witness ==
  /\ pc = "done"
  /\ sus_heavy(chord_balance)
  /\ \E p \in 1..Len(out) :
       /\ Len(out[p].chords) = 4
       /\ is_sus(QualOf(p, 1))
       /\ RootOf(p, 4) # RootOf(p, 1)

\* C3: durations sum to the sampled total, one of 4, 8, 16, and there is one
\* duration per chord and one chord per template degree.
C3_DurationsFitTemplate ==
  \A p \in 1..Len(out) :
    /\ SumSeq(out[p].durs) = hist[p].total_bars
    /\ hist[p].total_bars \in {4, 8, 16}
    /\ Len(out[p].durs) = Len(out[p].chords)
    /\ Len(out[p].chords) = Len(hist[p].template)

\* a returned 16-bar progression whose qualities the repair changed
C3_Witness ==
  /\ pc = "done"
  /\ \E p \in 1..Len(out) :
       /\ hist[p].total_bars = 16
       /\ \E j \in 1..Len(out[p].chords) : ZeroWeight(QualOf(p, j))

\* C4: no two accepted progressions of a batch have the same chord sequence.
C4_NoRepeatedSequence ==
  \A p, q \in 1..Len(out) : p # q => out[p].chords # out[q].chords

\* an attempt was refused because its chord sequence was already accepted
C4_Witness == last = "duplicate" /\ Len(out) >= 1

\* C5: with exactly one quality of non-zero weight, every accepted chord has
\* that quality (no chord of a zero-weight quality is emitted).
C5_OnlyTheEnabledQuality ==
  (/\ HasBalance(chord_balance)
   /\ Cardinality({q \in Qualities : BalanceGet(chord_balance, q) > 0}) = 1)
  => \A p \in 1..Len(out) : \A j \in 1..Len(out[p].chords) :
       BalanceGet(chord_balance, QualOf(p, j)) > 0

\* accepted progressions whose fingerprint an earlier one of the batch used
RepeatedFingerprints ==
  {p \in 1..Len(hist) :
     \E q \in 1..(p - 1) : hist[q].degs = hist[p].degs /\ hist[q].quals = hist[p].quals}

\* C6: pattern_dupe_used is the number of accepted progressions that repeat
\* an earlier fingerprint and never exceeds floor(n / 100); below n = 100 all
\* fingerprints are distinct.
C6_DupeAllowance ==
  /\ pattern_dupe_used = Cardinality(RepeatedFingerprints)
  /\ pattern_dupe_used <= n \div 100
  /\ n < 100 => RepeatedFingerprints = {}

\* the allowance of a batch of 100 is spent and a further repeat is refused
C6_Witness ==
  /\ n = 100
  /\ pattern_dupe_used = 1
  /\ last = "over_quota"

\* C7: no fingerprint is used by more than two accepted progressions.
C7_AtMostTwoPerFingerprint ==
  \A fp \in DOMAIN pattern_counts : pattern_counts[fp] <= 2

\* ------------------------------------------------------------------------
\* write_progression_midi: the notes of one file
\* ------------------------------------------------------------------------
\* the chord names the generator emits in a key: a scale root with a quality
\* diatonic on it
DiatonicChords(key) ==
  {ch \in {<<SCALES[key][d], q>> : d \in 1..7, q \in Qualities} :
     _is_diatonic_chord(key, ch[1], ch[2])}

\* the sets of candidates whose draw passes, at most k of them. A voicing
\* returned when more draws pass is also returned when only the draw of the
\* winner passes: the other candidates kept were no cheaper, and the winner
\* passes or fails the shared tone cap either way.
RECURSIVE KeptSets(_, _)
KeptSets(draws, k) ==
  IF k = 0 THEN {{}}
  ELSE KeptSets(draws, k - 1)
       \cup {S \cup {c} : S \in KeptSets(draws, k - 1), c \in draws}

\* generate_progressions is not running
GeneratorIdle ==
  /\ n = 0
  /\ chord_balance = NoBalance
  /\ ban_set = {}
  /\ keys = <<>>
  /\ tries = 0
  /\ out = <<>>
  /\ hist = <<>>
  /\ used_exact = {}
  /\ pattern_counts = <<>>
  /\ pattern_dupe_used = 0
  /\ low_sim_total = 0
  /\ qual_usage = <<>>
  /\ last = "none"
  /\ pc = "idle"

InitWriter ==
  /\ ProfileDefault
  /\ GeneratorIdle
  /\ SeedIdle
  /\ key_name \in ModelKeys
  /\ revoice \in BOOLEAN
  /\ chords = <<>>
  /\ raw = <<>>
  /\ voiced = <<>>
  /\ filters = <<>>
  /\ out_notes = <<>>
  /\ pitches = <<>>
  /\ wpc = "raw"
  /\ FrameIdle

\* raw = [_enforce_register(chord_to_midi(ch)) for ch in chords], one chord at
\* a time: the chords of the file are read as the loops reach them (raw[i]
\* depends on chords[i] alone)
ReadChord ==
  /\ wpc = "raw"
  /\ Len(chords) < MaxVoiced
  /\ \E ch \in DiatonicChords(key_name) :
       /\ chords' = Append(chords, ch)
       /\ raw' = Append(raw, _enforce_register(chord_to_midi(ch[1], ch[2])))
  /\ wpc' = IF revoice THEN "voice" ELSE "raw"
  /\ UNCHANGED <<key_name, revoice, voiced, filters, out_notes, pitches>>
  /\ UNCHANGED gen_vars
  /\ UNCHANGED seed_vars
  /\ UNCHANGED frame_vars
  /\ UNCHANGED ui_vars

\* one round of "for ch_name, notes in zip(chords, raw)" under revoice
VoiceChord ==
  /\ wpc = "voice"
  /\ LET i == Len(voiced) + 1
         prev_v == IF i = 1 THEN <<>> ELSE voiced[i - 1]
         prev_qual == IF i = 1 THEN chords[1][2] ELSE chords[i - 1][2]
     IN \E kept \in KeptSets(GlueDraws(raw[i]), MaxGlueKept) :
          \E v \in choose_best_voicing(prev_v, prev_qual, chords[i][2], raw[i],
                                       key_name, kept) :
            /\ voiced' = Append(voiced, _enforce_register(v))
            /\ filters' = Append(filters,
                 [glue |-> GlueFiltered(
                             generate_voicing_candidates(RawClean(raw[i])), kept) = {},
                  cap |-> /\ prev_v # <<>>
                          /\ CapFiltered(prev_v, prev_qual, chords[i][2],
                               CandsRepaired(prev_v, raw[i], key_name, kept)) = {},
                  chosen |-> v])
  /\ wpc' = "raw"
  /\ UNCHANGED <<key_name, revoice, chords, raw, out_notes, pitches>>
  /\ UNCHANGED gen_vars
  /\ UNCHANGED seed_vars
  /\ UNCHANGED frame_vars
  /\ UNCHANGED ui_vars

\* out_notes = optimize_progression_register(out_notes), then the notes are
\* written GLOBAL_TRANSPOSE higher, sorted(set(shifted)) per chord
WriteNotes ==
  /\ wpc = "raw"
  /\ Len(chords) >= 1
  /\ out_notes' = optimize_progression_register(IF revoice THEN voiced ELSE raw)
  /\ pitches' = [i \in DOMAIN out_notes' |->
                   SortedSet({p + GLOBAL_TRANSPOSE : p \in Range(out_notes'[i])})]
  /\ wpc' = "written"
  /\ UNCHANGED <<key_name, revoice, chords, raw, voiced, filters>>
  /\ UNCHANGED gen_vars
  /\ UNCHANGED seed_vars
  /\ UNCHANGED frame_vars
  /\ UNCHANGED ui_vars

NextWriter == ReadChord \/ VoiceChord \/ WriteNotes

SpecVoicing == InitWriter /\ [][NextWriter]_vars

\* ------------------------------------------------------------------------
\* Properties of the written notes
\* ------------------------------------------------------------------------
\* the pitch classes of the chord ch = <<root, quality>>
ChordPcs(ch) ==
  {(NOTE_TO_PC[ch[1]] + QUAL_TO_INTERVALS[ch[2]][x]) % 12 :
     x \in DOMAIN QUAL_TO_INTERVALS[ch[2]]}

\* C8: every pitch of every chord the pipeline hands to the writer (raw or
\* revoiced, after _enforce_register and optimize_progression_register, before
\* GLOBAL_TRANSPOSE is added) lies within 40..88, whatever chord came before.
C8_PitchesWithinFloorAndCeiling ==
  \A i \in DOMAIN out_notes :
    \A j \in DOMAIN out_notes[i] : out_notes[i][j] >= 40 /\ out_notes[i][j] <= 88

\* a revoiced file of two chords is written, and the second chord, voiced
\* after the first, has its bass on the floor
C8_Witness ==
  /\ wpc = "written"
  /\ revoice
  /\ Len(out_notes) = 2
  /\ out_notes[2][1] = 40

\* notes keeps the chord ch whole: as many distinct pitches as the quality has
\* intervals, and the pitch classes of the chord
KeepsChord(notes, ch) ==
  /\ Len(notes) = Len(QUAL_TO_INTERVALS[ch[2]])
  /\ Cardinality(Range(notes)) = Len(QUAL_TO_INTERVALS[ch[2]])
  /\ _pcset(notes) = ChordPcs(ch)

\* C9: at every stage (raw, chosen by choose_best_voicing, after
\* _enforce_register, after optimize_progression_register) the voicing of a
\* chord has exactly as many distinct pitches as the quality has intervals and
\* the pitch classes of the chord; choose_best_voicing never returns an empty
\* voicing, also when a filter was skipped because it left no candidate.
C9_VoicingKeepsEveryChordTone ==
  /\ \A i \in DOMAIN raw : KeepsChord(raw[i], chords[i])
  /\ \A i \in DOMAIN voiced :
       /\ filters[i].chosen # <<>>
       /\ KeepsChord(filters[i].chosen, chords[i])
       /\ KeepsChord(voiced[i], chords[i])
  /\ \A i \in DOMAIN out_notes : KeepsChord(out_notes[i], chords[i])

\* a revoiced file of two chords is written whose second chord is a min11:
\* choose_best_voicing gave it another shape than the raw one, and the six
\* chord tones are there after the register optimisation
C9_Witness ==
  /\ wpc = "written"
  /\ revoice
  /\ Len(out_notes) = 2
  /\ chords[2][2] = "min11"
  /\ filters[2].chosen # raw[2]
  /\ Cardinality(Range(out_notes[2])) = 6

\* ------------------------------------------------------------------------
\* Property of two calls with the same arguments
\* ------------------------------------------------------------------------
\* C10: generate_progressions called again with the same n, seed, balance and
\* ban set builds, slot by slot, the batch of the first call and ends as the
\* first call did: the same ordered batch (chords, durations, keys) and the
\* same diagnostics, or the same error.
C10_SameSeedSameBatch ==
  first # <<>> =>
    /\ Len(out) <= Len(first[1].out)
    /\ \A i \in DOMAIN out : out[i] = first[1].out[i]
    /\ CallOver => Returned = first[1]

\* a second call of a batch of two has returned, each call having drawn two
\* keys and the draws of two accepted attempts
C10_Witness ==
  /\ first # <<>>
  /\ pc = "done"
  /\ n = 2
  /\ Len(out) = 2
  /\ out[1].chords # out[2].chords
  /\ rng.used = 6

\* ------------------------------------------------------------------------
\* write_single_chord_midi called twice with the same chord name and seed
\* ------------------------------------------------------------------------
\* the chord names written one by one: the chords of the keys explored
SingleChords == UNION {DiatonicChords(k) : k \in ModelKeys}

\* the key write_single_chord_midi hands to choose_best_voicing
SINGLE_CHORD_KEY == "C"

InitSingle ==
  /\ ProfileDefault
  /\ GeneratorIdle
  /\ key_name = SINGLE_CHORD_KEY
  /\ revoice \in BOOLEAN
  /\ \E ch \in SingleChords : chords = <<ch>>
  /\ raw = <<>>
  /\ voiced = <<>>
  /\ filters = <<>>
  /\ out_notes = <<>>
  /\ pitches = <<>>
  /\ wpc = "single"
  /\ rng = Random(EmptyStream)
  /\ first = <<>>
  /\ FrameIdle

\* write_single_chord_midi up to the notes written. glue_ok calls rng.random()
\* once for every candidate it decides by a draw, in the order of the list of
\* candidates: the draws of the filter are taken together, at the position of
\* the first. The order of the list (a set of tuples of integers turned into a
\* list) is the same in every run, so the candidate the stable sort puts first
\* among those of least cost is met once (position 0 of the log, which is no
\* position of the stream) and the same ever after.
WriteSingle ==
  /\ wpc = "single"
  /\ LET ch == chords[1]
         raw_notes == _enforce_register(chord_to_midi(ch[1], ch[2]))
         draws == GlueDraws(raw_notes)
         p == rng.start + rng.used + 1
         glue == [op |-> "glue_ok", args |-> <<draws>>]
     IN /\ raw' = <<raw_notes>>
        /\ IF revoice
             THEN \E kept \in Draw(p, glue, KeptSets(draws, MaxGlueKept)) :
                    LET best == choose_best_voicing(<<>>, ch[2], ch[2], raw_notes,
                                                    SINGLE_CHORD_KEY, kept)
                        head == [op |-> "cands[0]", args |-> <<best>>]
                    IN \E v \in Draw(0, head, best) :
                         /\ voiced' = <<_enforce_register(_enforce_register(v))>>
                         /\ rng' = [rng EXCEPT
                                      !.log = Reveal(Reveal(@, p, glue, kept), 0, head, v),
                                      !.used = @ + Cardinality(draws)]
           ELSE /\ voiced' = <<_enforce_register(raw_notes)>>
                /\ UNCHANGED rng
  /\ pitches' = <<SortedSet({x + GLOBAL_TRANSPOSE : x \in Range(voiced'[1])})>>
  /\ wpc' = "written"
  /\ UNCHANGED <<key_name, revoice, chords, filters, out_notes, first>>
  /\ UNCHANGED gen_vars
  /\ UNCHANGED frame_vars
  /\ UNCHANGED ui_vars

\* the second call, with the chord name, the flag and the seed of the first
WriteSingleAgain ==
  /\ wpc = "written"
  /\ first = <<>>
  /\ first' = <<[notes |-> voiced[1], pitches |-> pitches[1]]>>
  /\ rng' = Random(rng)
  /\ raw' = <<>>
  /\ voiced' = <<>>
  /\ pitches' = <<>>
  /\ wpc' = "single"
  /\ UNCHANGED <<key_name, revoice, chords, filters, out_notes>>
  /\ UNCHANGED gen_vars
  /\ UNCHANGED frame_vars
  /\ UNCHANGED ui_vars

NextSingle == WriteSingle \/ WriteSingleAgain

SpecSingle == InitSingle /\ [][NextSingle]_vars

\* C11: a chord name written twice as a single chord, revoiced, with the same
\* seed gets the same pitches both times.
C11_SameSeedSameVoicing ==
  (first # <<>> /\ wpc = "written" /\ revoice) =>
    /\ voiced[1] = first[1].notes
    /\ pitches[1] = first[1].pitches

\* a revoiced chord was written twice, its glue filter drew from the stream
\* and let a candidate through, and the voicing is not the raw one
C11_Witness ==
  /\ first # <<>>
  /\ wpc = "written"
  /\ revoice
  /\ rng.used > 0
  /\ \E p \in DOMAIN rng.log : p > 0 /\ rng.log[p].ret # {}
  /\ voiced[1] # raw[1]

\* ------------------------------------------------------------------------
\* Properties of the batch loop
\* ------------------------------------------------------------------------
\* C12: generate_progressions ends in one of two ways, a return of exactly n
\* progressions or an error; a slot makes at most 40000 attempts, a slot whose
\* 40000 attempts all failed raises at once, before every slot after it, and
\* nothing follows a return or an error: no shorter batch is ever returned.
C12_ReturnsAllOrRaises ==
  /\ [](/\ tries <= 40000
        /\ pc = "done" => Len(out) = n
        /\ pc = "exhausted" => (tries = 40000 /\ Len(out) < n /\ Len(keys) = Len(out) + 1))
  /\ [][(pc = "try" /\ tries = 40000) => pc' = "exhausted"]_vars
  /\ [][~CallOver]_vars

\* the second slot of a batch used up its attempts: the call raised with one
\* progression built
C12_Witness ==
  /\ pc = "exhausted"
  /\ tries = 40000
  /\ Len(out) = 1
  /\ n >= 2


\* every quality of the supplied balance has weight 0
AllQualitiesZero ==
  /\ HasBalance(chord_balance)
  /\ \A q \in Qualities : BalanceGet(chord_balance, q) = 0

\* C13: with a supplied balance in which every quality has weight 0 and
\* n >= 1, the call raises the configuration error at its first slot, before
\* any builder attempt: the only step of such a call leads from the slot to
\* the error, no try is consumed, nothing is sampled (no attempt has a result,
\* no template, quality or duration is recorded) and nothing is returned.
C13_AllZeroRaisesBeforeAnyAttempt ==
  /\ []((AllQualitiesZero /\ n >= 1) =>
          /\ pc \in {"slot", "config_error"}
          /\ tries = 0
          /\ last = "none"
          /\ out = <<>>
          /\ hist = <<>>
          /\ Len(keys) <= 1)
  /\ [][(AllQualitiesZero /\ n >= 1 /\ pc = "slot") => pc' = "config_error"]_vars
  /\ [][(AllQualitiesZero /\ pc = "config_error") => FALSE]_vars

\* a call for two progressions with every weight 0 has raised at its first slot
C13_Witness ==
  /\ AllQualitiesZero
  /\ n = 2
  /\ pc = "config_error"
  /\ tries = 0
  /\ Len(keys) = 1


\* the chord symbols of the i-th returned progression, each normalized as
\* progression_is_banned normalizes them
NormalizedChords(i) ==
  [j \in 1..Len(hist[i].degs) |->
     _normalize_chord_token(SCALES[out[i].key][hist[i].degs[j] + 1], hist[i].quals[j])]

\* C14: no progression of the batch has its ordered tuple of normalized chord
\* symbols in the ban set, and an attempt whose build matches the ban set is
\* skipped: it adds nothing to the batch or to the bookkeeping and the slot
\* stays in its attempt loop.
C14_NoBannedProgressionReturned ==
  /\ [](\A i \in 1..Len(out) : NormalizedChords(i) \notin ban_set)
  /\ [][(pc = "try" /\ tries' # tries /\ last' = "banned") =>
          /\ pc' = "try"
          /\ tries' > tries
          /\ out' = out
          /\ used_exact' = used_exact
          /\ pattern_counts' = pattern_counts]_vars

\* a build that matched the ban set was skipped after a progression had
\* already been accepted into the batch
C14_Witness ==
  /\ ban_set # {}
  /\ last = "banned"
  /\ pc = "try"
  /\ tries > 0
  /\ Len(out) >= 1


\* ------------------------------------------------------------------------
\* _pick_keys_even(n, rng) on its own: `keys` holds the list `out` of the
\* function as it is built, pc the statement reached
\* ------------------------------------------------------------------------
\* x[i], x[j] = x[j], x[i]
SwapAt(x, i, j) == [x EXCEPT ![i] = x[j], ![j] = x[i]]

\* rng.shuffle(x) from position i downwards (for i in reversed(range(1, len(x))):
\* j = randbelow(i + 1); swap x[i], x[j]), with at most b positions drawing a j
\* other than i
RECURSIVE ShuffleFrom(_, _, _)
ShuffleFrom(x, i, b) ==
  IF i < 2 THEN {x}
  ELSE ShuffleFrom(x, i - 1, b)
       \cup (IF b = 0 THEN {}
             ELSE UNION {ShuffleFrom(SwapAt(x, i, j), i - 1, b - 1) : j \in 1..(i - 1)})

\* the lists rng.shuffle(x) can leave in x
Shuffle(x) == ShuffleFrom(x, Len(x), MaxShuffleSwaps)

\* for k in KEYS: out += [k] * base
BaseKeys(base) == [j \in 1..(Len(KEYS) * base) |-> KEYS[((j - 1) \div base) + 1]]

\* the extra keys drawn one by one with repetition allowed
ExtraKeysRepeated(extra, rem) == [j \in 1..rem |-> extra[1]]

\* extra[:rem]
ExtraKeys(extra, rem) == SubSeq(extra, 1, rem)

InitKeys ==
  /\ ProfileDefault
  /\ n \in 0..MaxKeyBatch
  /\ chord_balance = NoBalance
  /\ ban_set = {}
  /\ keys = <<>>
  /\ tries = 0
  /\ out = <<>>
  /\ hist = <<>>
  /\ used_exact = {}
  /\ pattern_counts = <<>>
  /\ pattern_dupe_used = 0
  /\ low_sim_total = 0
  /\ qual_usage = <<>>
  /\ last = "none"
  /\ pc = "keys_base"
  /\ WriterIdle
  /\ SeedIdle
  /\ FrameIdle

\* base = n // len(KEYS); out = []; for k in KEYS: out += [k] * base
PickBase ==
  /\ pc = "keys_base"
  /\ keys' = BaseKeys(n \div Len(KEYS))
  /\ pc' = "keys_extra"
  /\ UNCHANGED <<n, chord_balance, ban_set, tries, out, hist, used_exact,
                 pattern_counts, pattern_dupe_used, low_sim_total, qual_usage, last>>
  /\ UNCHANGED voice_vars
  /\ UNCHANGED seed_vars
  /\ UNCHANGED frame_vars
  /\ UNCHANGED ui_vars

\* rem = n % len(KEYS); extra = KEYS[:]; rng.shuffle(extra); out += extra[:rem]
PickExtra ==
  /\ pc = "keys_extra"
  /\ \E extra \in Shuffle(KEYS) : keys' = keys \o ExtraKeys(extra, n % Len(KEYS))
  /\ pc' = "keys_shuffle"
  /\ UNCHANGED <<n, chord_balance, ban_set, tries, out, hist, used_exact,
                 pattern_counts, pattern_dupe_used, low_sim_total, qual_usage, last>>
  /\ UNCHANGED voice_vars
  /\ UNCHANGED seed_vars
  /\ UNCHANGED frame_vars
  /\ UNCHANGED ui_vars

\* rng.shuffle(out); return out
ShuffleKeys ==
  /\ pc = "keys_shuffle"
  /\ keys' \in Shuffle(keys)
  /\ pc' = "keys_done"
  /\ UNCHANGED <<n, chord_balance, ban_set, tries, out, hist, used_exact,
                 pattern_counts, pattern_dupe_used, low_sim_total, qual_usage, last>>
  /\ UNCHANGED voice_vars
  /\ UNCHANGED seed_vars
  /\ UNCHANGED frame_vars
  /\ UNCHANGED ui_vars

NextKeys == PickBase \/ PickExtra \/ ShuffleKeys

SpecKeys == InitKeys /\ [][NextKeys]_vars

\* C15: _pick_keys_even(n) returns exactly n keys, all of the 12-key table;
\* every key of the table occurs floor(n / 12) or floor(n / 12) + 1 times, and
\* exactly n mod 12 distinct keys occur floor(n / 12) + 1 times.
C15_KeysSpreadEvenly ==
  pc = "keys_done" =>
    /\ Len(KEYS) = 12
    /\ Cardinality(Range(KEYS)) = 12
    /\ Len(keys) = n
    /\ Range(keys) \subseteq Range(KEYS)
    /\ \A k \in Range(KEYS) : KeyCount(keys, k) \in {n \div 12, (n \div 12) + 1}
    /\ Cardinality({k \in Range(KEYS) : KeyCount(keys, k) = (n \div 12) + 1}) = n % 12

\* a list of more than 12 keys was returned in which two keys occur twice
\* and the shuffles moved both an extra key and the head of the list
C15_Witness ==
  /\ pc = "keys_done"
  /\ n > 12
  /\ Cardinality({k \in Range(KEYS) : KeyCount(keys, k) = 2}) = 2
  /\ KeyCount(keys, KEYS[1]) = 1
  /\ keys[1] # KEYS[1]


\* ------------------------------------------------------------------------
\* Properties of the accepted progressions
\* ------------------------------------------------------------------------
\* the sampled template of the i-th accepted progression names a degree twice
TemplateRepeatsDegree(i) ==
  Cardinality(Range(hist[i].template)) < Len(hist[i].template)

\* C16: within every accepted progression the chord symbols are pairwise
\* distinct (a repeat left by the sampling was rewritten by
\* _dedupe_inside_progression, or the attempt failed).
C16_ChordSymbolsPairwiseDistinct ==
  \A i \in 1..Len(out) :
    /\ \A a, b \in 1..Len(out[i].chords) :
         a # b => out[i].chords[a] # out[i].chords[b]
    /\ out[i].chords = [j \in 1..Len(hist[i].degs) |->
                          ChordSymbol(SCALES[out[i].key][hist[i].degs[j] + 1],
                                      hist[i].quals[j])]

\* a progression was accepted whose template names a degree twice while one
\* quality only is enabled, so that the sampling left a repeat to rewrite
C16_Witness ==
  /\ HasBalance(chord_balance)
  /\ Len(_enabled_qualities(chord_balance)) = 1
  /\ \E i \in 1..Len(out) :
       /\ TemplateRepeatsDegree(i)
       /\ Len(out[i].chords) >= 3

\* C17: the first chord of an accepted progression is a sus chord (sus2,
\* sus4, sus2add9, sus4add9) only if the supplied balance gives some sus
\* quality a weight above 80.
C17_NoSusStartUnlessWeighted ==
  \A i \in 1..Len(out) :
    hist[i].quals[1] \in {"sus2", "sus4", "sus2add9", "sus4add9"} =>
      /\ HasBalance(chord_balance)
      /\ \E k \in {"sus2", "sus4", "sus2add9", "sus4add9"} :
           BalanceGet(chord_balance, k) > 80

\* without any sus weight above 80 a progression was accepted that holds a
\* sus chord, behind a first chord that is none
C17_Witness ==
  /\ ~sus_allowed_start(chord_balance)
  /\ \E i \in 1..Len(out) :
       /\ ~is_sus(hist[i].quals[1])
       /\ \E j \in 2..Len(hist[i].quals) : is_sus(hist[i].quals[j])


\* the four sus weights of the balance summed, each factor times 50 (the
\* factors average 1.35 exactly when this sum is 270)
SusWeightTotal ==
  SumSeq([j \in 1..4 |-> _balance_factor(BalanceGet(chord_balance, SUS_KEYS[j]))])

\* no balance, or an average sus factor below 1.35
DefaultSusRegime == ~HasBalance(chord_balance) \/ SusWeightTotal < 270

\* an average sus factor of 1.35 or more
HeavySusRegime == HasBalance(chord_balance) /\ SusWeightTotal >= 270

\* positions of progression p holding a quality of the set qs
PositionsOf(p, qs) == {j \in 1..Len(hist[p].quals) : QualOf(p, j) \in qs}

\* pitch classes shared by chord j of progression p and its successor on the loop
SharedOnLoop(p, j) ==
  Cardinality(PcsOf(p, j) \cap PcsOf(p, (j % Len(hist[p].quals)) + 1))

\* chord j of progression p or its successor on the loop has a quality of qs
PairTouches(p, j, qs) ==
  QualOf(p, j) \in qs \/ QualOf(p, (j % Len(hist[p].quals)) + 1) \in qs

\* C18: in the default sus regime every accepted progression has at most 45%
\* sus chords and at most one sus4-family chord (sus4, sus4add9), counted on
\* the qualities it was accepted with.
C18_DefaultSusShareBounded ==
  DefaultSusRegime =>
    \A p \in 1..Len(out) :
      /\ 100 * Cardinality(PositionsOf(p, {"sus2", "sus4", "sus2add9", "sus4add9"}))
           <= 45 * Len(hist[p].quals)
      /\ Cardinality(PositionsOf(p, {"sus4", "sus4add9"})) <= 1

\* in the default regime a progression of five chords was accepted of which
\* two are sus chords, one of them of the sus4 family
C18_Witness ==
  /\ DefaultSusRegime
  /\ \E p \in 1..Len(out) :
       /\ Len(hist[p].quals) = 5
       /\ Cardinality(PositionsOf(p, {"sus2", "sus4", "sus2add9", "sus4add9"})) = 2
       /\ Cardinality(PositionsOf(p, {"sus4", "sus4add9"})) = 1

\* C19: in the default sus regime, every adjacent pair and the wrap-around
\* pair of an accepted progression shares at least 2 pitch classes if either
\* chord is a sus chord, and at least 3 if either is of the sus4 family.
C19_DefaultSusPairsShareTones ==
  DefaultSusRegime =>
    \A p \in 1..Len(out) : \A j \in 1..Len(hist[p].quals) :
      /\ PairTouches(p, j, {"sus2", "sus4", "sus2add9", "sus4add9"})
           => SharedOnLoop(p, j) >= 2
      /\ PairTouches(p, j, {"sus4", "sus4add9"}) => SharedOnLoop(p, j) >= 3

\* in the default regime a progression was accepted that ends on a chord of
\* the sus4 family, whose wrap-around pair with the first chord shares three
\* pitch classes and no more
C19_Witness ==
  /\ DefaultSusRegime
  /\ \E p \in 1..Len(out) :
       /\ QualOf(p, Len(hist[p].quals)) \in {"sus4", "sus4add9"}
       /\ SharedOnLoop(p, Len(hist[p].quals)) = 3

\* C20: in the sus-heavy regime every adjacent pair and the wrap-around pair
\* of an accepted progression shares at least 2 pitch classes, at least 3 if
\* either chord is of the sus4 family, and the loop holds a consecutive pair
\* of roots at most 2 semitones apart or a root that occurs twice.
C20_HeavySusPairsAndStep ==
  HeavySusRegime =>
    \A p \in 1..Len(out) :
      /\ \A j \in 1..Len(hist[p].quals) :
           /\ SharedOnLoop(p, j) >= 2
           /\ PairTouches(p, j, {"sus4", "sus4add9"}) => SharedOnLoop(p, j) >= 3
      /\ \/ \E j \in 1..Len(hist[p].quals) :
              pc_interval(NOTE_TO_PC[RootOf(p, j)],
                          NOTE_TO_PC[RootOf(p, (j % Len(hist[p].quals)) + 1)]) <= 2
         \/ \E a, b \in 1..Len(hist[p].quals) :
              a # b /\ NOTE_TO_PC[RootOf(p, a)] = NOTE_TO_PC[RootOf(p, b)]


\* the pairs of progression p (adjacent and wrap-around, each named by its
\* first position) whose chords differ by 3 notes or more
BigJumpPairs(p) ==
  {j \in 1..Len(hist[p].quals) :
     Abs(Len(QUAL_TO_INTERVALS[QualOf(p, j)])
         - Len(QUAL_TO_INTERVALS[QualOf(p, (j % Len(hist[p].quals)) + 1)])) >= 3}

\* C21: in every accepted progression at most one pair, adjacent or
\* wrap-around, has note counts that differ by 3 or more; in a two-chord
\* progression the adjacent and the wrap-around pair are the same two chords,
\* both counted, so that it has no such pair at all.
C21_AtMostOneBigNoteCountJump ==
  \A p \in 1..Len(out) :
    /\ Cardinality(BigJumpPairs(p)) <= 1
    /\ Len(hist[p].quals) = 2 => BigJumpPairs(p) = {}

\* a progression was accepted whose wrap-around pair is its one pair with
\* note counts 3 or more apart
C21_Witness ==
  \E p \in 1..Len(out) :
    /\ Len(hist[p].quals) >= 3
    /\ BigJumpPairs(p) = {Len(hist[p].quals)}


\* ------------------------------------------------------------------------
\* _enforce_register(notes) on its own: the frame holds the argument and,
\* once the function returned, its result
\* ------------------------------------------------------------------------
\* the longest list of pitches the function is called with
MaxRegisterNotes == 2

\* the MIDI pitches
MidiPitches == 0..127

\* the non-empty lists of MIDI pitches, in any order and with repeats
RegisterInputs ==
  UNION {[1..k -> MidiPitches] : k \in 1..MaxRegisterNotes}

InitRegister ==
  /\ ProfileDefault
  /\ GeneratorIdle
  /\ SeedIdle
  /\ WriterIdle
  /\ \E notes \in RegisterInputs :
       frame = [fn |-> "_enforce_register", notes |-> notes, at |-> "call",
                result |-> <<>>]

\* the call returns
EnforceRegister ==
  /\ frame.fn = "_enforce_register"
  /\ frame.at = "call"
  /\ frame' = [frame EXCEPT !.at = "return",
                            !.result = _enforce_register(frame.notes)]
  /\ UNCHANGED gen_vars
  /\ UNCHANGED voice_vars
  /\ UNCHANGED seed_vars
  /\ UNCHANGED ui_vars

NextRegister == EnforceRegister

SpecRegister == InitRegister /\ [][NextRegister]_vars

\* the result is the sorted set of the argument moved by whole octaves
IsOctaveTransposition(result, notes) ==
  \E k \in -11..11 : Range(result) = _shift_octaves(Range(notes), k)

\* C26: for every non-empty list of MIDI pitches, the result of
\* _enforce_register has no note below NOTE_MIN_MIDI (40), its lowest note
\* lies inside the bass window BASS_MIN_MIDI..BASS_MAX_MIDI (40..52), and it is
\* an octave transposition of the input (whole-chord octave shifts only)
C26_RegisterEnforced ==
  (frame.fn = "_enforce_register" /\ frame.at = "return")
    => /\ \A x \in Range(frame.result) : x >= NOTE_MIN_MIDI
       /\ frame.result /= <<>>
       /\ frame.result[1] >= BASS_MIN_MIDI
       /\ frame.result[1] <= BASS_MAX_MIDI
       /\ IsOctaveTransposition(frame.result, frame.notes)


\* ------------------------------------------------------------------------
\* repair_cross_semitones(prev_notes, cur_notes, allowed_target_pcs) on its
\* own, one statement of its loops at a time. The frame holds the arguments,
\* the locals v, bad_idxs and changed_any, the rounds of the outer loop begun
\* (iters), the position j in bad_idxs the inner loop has reached, the number
\* of relocations made (moves) and the result
\* ------------------------------------------------------------------------
\* the first chords voiced: choose_best_voicing(None, ...) of a chord of the
\* key, as write_progression_midi keeps it
FirstVoicings(key, ch) ==
  LET raw_notes == _enforce_register(chord_to_midi(ch[1], ch[2]))
  IN {_enforce_register(v) :
        v \in UNION {choose_best_voicing(<<>>, ch[2], ch[2], raw_notes, key, kept) :
                       kept \in KeptSets(GlueDraws(raw_notes), MaxGlueKept)}}

\* the candidates of a chord of the key the glue filter can leave
GluedCandidates(ch) ==
  LET raw_notes == _enforce_register(chord_to_midi(ch[1], ch[2]))
  IN UNION {CandsGlued(generate_voicing_candidates(RawClean(raw_notes)), kept) :
              kept \in KeptSets(GlueDraws(raw_notes), MaxGlueKept)}

\* the frame at the head of the function: v = sorted(list(cur_notes))
RepairFrame(prev_notes, cur_notes, allowed_target_pcs) ==
  [fn |-> "repair_cross_semitones", prev_notes |-> prev_notes,
   cur_notes |-> cur_notes, allowed_target_pcs |-> allowed_target_pcs,
   v |-> Sorted(cur_notes), bad_idxs |-> <<>>, j |-> 0, iters |-> 0,
   changed_any |-> FALSE, moves |-> 0, at |-> "round", result |-> <<>>]

\* the calls choose_best_voicing makes for the second chord of a file: the
\* previous voicing is the first chord as voiced, cur_notes a candidate of the
\* second chord that passed the glue filter
InitRepair ==
  /\ ProfileDefault
  /\ GeneratorIdle
  /\ SeedIdle
  /\ WriterIdle
  /\ \E key \in ModelKeys :
       \E ch1 \in DiatonicChords(key) :
         \E prev_notes \in FirstVoicings(key, ch1) :
           \E ch2 \in DiatonicChords(key) :
             \E cur_notes \in GluedCandidates(ch2) :
               frame = RepairFrame(prev_notes, cur_notes, allowed_resolution_pcs(key))

\* for _ in range(max_iters): bad_idxs = ...; if not bad_idxs: break;
\* changed_any = False
RepairRound ==
  /\ frame.fn = "repair_cross_semitones"
  /\ frame.at = "round"
  /\ LET bad_idxs == bad_cross_semitone_indices(frame.prev_notes, frame.v,
                                                frame.allowed_target_pcs)
     IN frame' = IF frame.iters = REPAIR_MAX_ITERS \/ bad_idxs = <<>>
                   THEN [frame EXCEPT !.at = "break"]
                 ELSE [frame EXCEPT !.bad_idxs = bad_idxs, !.j = 1,
                                    !.iters = @ + 1, !.changed_any = FALSE,
                                    !.at = "idx"]
  /\ UNCHANGED gen_vars
  /\ UNCHANGED voice_vars
  /\ UNCHANGED seed_vars
  /\ UNCHANGED ui_vars

\* one round of "for idx in bad_idxs", and "if not changed_any: break" after
\* the last one
RepairIdx ==
  /\ frame.fn = "repair_cross_semitones"
  /\ frame.at = "idx"
  /\ LET idx == frame.bad_idxs[frame.j]
         moved == RepairOptions(frame.v, idx) # <<>>
         changed_any == frame.changed_any \/ moved
     IN frame' = [frame EXCEPT
          !.v = RepairOne(frame.prev_notes, frame.v, frame.allowed_target_pcs, idx),
          !.changed_any = changed_any,
          !.moves = IF moved THEN @ + 1 ELSE @,
          !.j = @ + 1,
          !.at = IF frame.j < Len(frame.bad_idxs) THEN "idx"
                 ELSE IF changed_any THEN "round" ELSE "break"]
  /\ UNCHANGED gen_vars
  /\ UNCHANGED voice_vars
  /\ UNCHANGED seed_vars
  /\ UNCHANGED ui_vars

\* return _sanitize_notes_strict(v)
RepairReturn ==
  /\ frame.fn = "repair_cross_semitones"
  /\ frame.at = "break"
  /\ frame' = [frame EXCEPT !.result = _sanitize_notes_strict(frame.v),
                            !.at = "return"]
  /\ UNCHANGED gen_vars
  /\ UNCHANGED voice_vars
  /\ UNCHANGED seed_vars
  /\ UNCHANGED ui_vars

NextRepair == RepairRound \/ RepairIdx \/ RepairReturn

SpecRepair == InitRepair /\ [][NextRepair]_vars

\* the notes of cur one semitone from a note of the previous chord and outside
\* the allowed resolution pitch classes
IllegalNotes(prev_notes, cur, allowed_target_pcs) ==
  {x \in Range(cur) :
     /\ (x - 1 \in Range(prev_notes) \/ x + 1 \in Range(prev_notes))
     /\ (x % 12) \notin allowed_target_pcs}

\* the statements of the function, taken one at a time, compute what the
\* function computes
RepairStepsAgree ==
  (frame.fn = "repair_cross_semitones" /\ frame.at = "return")
    => frame.result = repair_cross_semitones(frame.prev_notes, frame.cur_notes,
                                             frame.allowed_target_pcs)


\* a step that changes v relocates one note by an octave, and that note is
\* illegal in v as the step finds it; the result holds no more illegal notes
\* than the argument
RepairStepMovesIllegal ==
  frame.fn = "repair_cross_semitones"
    => /\ frame'.v # frame.v
            => \E x \in IllegalNotes(frame.prev_notes, frame.v,
                                     frame.allowed_target_pcs) :
                 \E n2 \in {x + 12, x - 12} :
                   Range(frame'.v) = (Range(frame.v) \ {x}) \cup {n2}
       /\ frame'.at = "return"
            => Cardinality(IllegalNotes(frame.prev_notes, frame'.result,
                                        frame.allowed_target_pcs))
                 <= Cardinality(IllegalNotes(frame.prev_notes, frame.cur_notes,
                                             frame.allowed_target_pcs))

\* C25: every step of repair_cross_semitones moves a note that is illegal at
\* that moment (one semitone from a note of the previous chord and outside the
\* allowed resolution pitch classes); a legal note is never relocated, and the
\* returned voicing never holds more illegal notes than the input
C25_RepairMovesOnlyIllegalNotes == [][RepairStepMovesIllegal]_vars

\* a call that returned after relocating a note in each of two rounds of the
\* outer loop
C25_Witness ==
  /\ frame.fn = "repair_cross_semitones"
  /\ frame.at = "return"
  /\ frame.moves >= 2
  /\ frame.result # Sorted(frame.cur_notes)


\* ------------------------------------------------------------------------
\* choose_best_voicing(prev_voicing, prev_name, cur_name, raw_notes, key_name,
\* rng) on its own, one stage at a time. The frame holds the arguments (the
\* draws of rng as the candidates kept), the local cands as the stages leave
\* it, the candidates as the repair left them (repaired), the one the sort
\* puts first (selected) and the result
\* ------------------------------------------------------------------------
\* the keys the calls are explored in
ChooseKeys == {"G", "Ab"}

\* the templates of the progressions the calls are explored in, one of
\* TEMPLATES_BY_LEN[2] and one of TEMPLATES_BY_LEN[3]
ChooseTemplates == {<<0, 5>>, <<0, 1, 3>>}

\* the chords of the key on the degree deg
ChordsOnDegree(key, deg) ==
  {ch \in DiatonicChords(key) : ch[1] = SCALES[key][deg + 1]}

\* the second chords voiced: choose_best_voicing(prev_v, ...) of ch2 after ch1,
\* as write_progression_midi keeps it
SecondVoicings(key, ch1, ch2) ==
  LET raw_notes == _enforce_register(chord_to_midi(ch2[1], ch2[2]))
  IN {_enforce_register(v) :
        v \in UNION {choose_best_voicing(prev_v, ch1[2], ch2[2], raw_notes, key, kept) :
                       prev_v \in FirstVoicings(key, ch1),
                       kept \in KeptSets(GlueDraws(raw_notes), MaxGlueKept)}}

\* the frame at the head of the function
ChooseFrame(prev_voicing, prev_qual, cur_qual, raw_notes, key, kept) ==
  [fn |-> "choose_best_voicing", prev_voicing |-> prev_voicing,
   prev_qual |-> prev_qual, cur_qual |-> cur_qual, raw_notes |-> raw_notes,
   key_name |-> key, kept |-> kept, cands |-> {}, repaired |-> {},
   selected |-> <<>>, at |-> "glue", result |-> <<>>]

\* the frames of the chord ch after the chord before, voiced as one of prevs
ChooseFrames(key, before, ch, prevs) ==
  LET raw_notes == _enforce_register(chord_to_midi(ch[1], ch[2]))
  IN {ChooseFrame(prev_voicing, before[2], ch[2], raw_notes, key, kept) :
        prev_voicing \in prevs,
        kept \in KeptSets(GlueDraws(raw_notes), MaxGlueKept)}

\* the calls write_progression_midi makes for the second and the third chord
\* of a file: chords of the key on the degrees of a template, the previous
\* voicing the chord before as voiced
InitChoose ==
  /\ ProfileDefault
  /\ GeneratorIdle
  /\ SeedIdle
  /\ WriterIdle
  /\ \E key \in ChooseKeys :
       \E degs \in ChooseTemplates :
         \E ch1 \in ChordsOnDegree(key, degs[1]) :
           \E ch2 \in ChordsOnDegree(key, degs[2]) :
             \/ frame \in ChooseFrames(key, ch1, ch2, FirstVoicings(key, ch1))
             \/ /\ Len(degs) >= 3
                /\ \E ch3 \in ChordsOnDegree(key, degs[3]) :
                     frame \in ChooseFrames(key, ch2, ch3,
                                            SecondVoicings(key, ch1, ch2))

\* cands = generate_voicing_candidates(raw_clean), then the glue filter
ChooseGlue ==
  /\ frame.fn = "choose_best_voicing"
  /\ frame.at = "glue"
  /\ frame' = [frame EXCEPT
       !.cands = CandsGlued(generate_voicing_candidates(RawClean(frame.raw_notes)),
                            frame.kept),
       !.at = "repair"]
  /\ UNCHANGED gen_vars
  /\ UNCHANGED voice_vars
  /\ UNCHANGED seed_vars
  /\ UNCHANGED ui_vars

\* cands = [repair_cross_semitones(prev_voicing, v, allowed_pcs) for v in cands]
ChooseRepair ==
  /\ frame.fn = "choose_best_voicing"
  /\ frame.at = "repair"
  /\ LET repaired == Repaired(frame.prev_voicing, frame.cands, frame.key_name)
     IN frame' = [frame EXCEPT !.cands = repaired, !.repaired = repaired,
                               !.at = "cap"]
  /\ UNCHANGED gen_vars
  /\ UNCHANGED voice_vars
  /\ UNCHANGED seed_vars
  /\ UNCHANGED ui_vars

\* the shared tone cap
ChooseCap ==
  /\ frame.fn = "choose_best_voicing"
  /\ frame.at = "cap"
  /\ frame' = [frame EXCEPT
       !.cands = CandsCapped(frame.prev_voicing, frame.prev_qual, frame.cur_qual,
                             frame.cands),
       !.at = "sort"]
  /\ UNCHANGED gen_vars
  /\ UNCHANGED voice_vars
  /\ UNCHANGED seed_vars
  /\ UNCHANGED ui_vars

\* cands.sort(key=cost); best = cands[0] if cands else raw_clean
ChooseSort ==
  /\ frame.fn = "choose_best_voicing"
  /\ frame.at = "sort"
  /\ \E best \in IF frame.cands = {} THEN {RawClean(frame.raw_notes)}
                 ELSE LeastCost(frame.cands, frame.prev_voicing,
                                RawClean(frame.raw_notes)) :
       frame' = [frame EXCEPT !.selected = best, !.at = "clean"]
  /\ UNCHANGED gen_vars
  /\ UNCHANGED voice_vars
  /\ UNCHANGED seed_vars
  /\ UNCHANGED ui_vars

\* best = _prefer_bass_zone(_sanitize_notes_strict(best)); return best
ChooseReturn ==
  /\ frame.fn = "choose_best_voicing"
  /\ frame.at = "clean"
  /\ frame' = [frame EXCEPT !.result = RawClean(frame.selected), !.at = "return"]
  /\ UNCHANGED gen_vars
  /\ UNCHANGED voice_vars
  /\ UNCHANGED seed_vars
  /\ UNCHANGED ui_vars

NextChoose == ChooseGlue \/ ChooseRepair \/ ChooseCap \/ ChooseSort \/ ChooseReturn

SpecChoose == InitChoose /\ [][NextChoose]_vars

\* the stages, taken one at a time, return what the function returns
ChooseStagesAgree ==
  (frame.fn = "choose_best_voicing" /\ frame.at = "return")
    => frame.result \in choose_best_voicing(frame.prev_voicing, frame.prev_qual,
                          frame.cur_qual, frame.raw_notes, frame.key_name,
                          frame.kept)

\* the number of unresolved cross-semitone clashes of v against the previous
\* voicing of the frame
Clashes(v) ==
  Cardinality(IllegalNotes(frame.prev_voicing, v,
                           allowed_resolution_pcs(frame.key_name)))

\* C22: choose_best_voicing never selects a candidate with more unresolved
\* cross-semitone clashes against the previous voicing than another candidate
\* that is still in the list when the cost is applied
C22_FewestClashesSelected ==
  (frame.fn = "choose_best_voicing" /\ frame.at \in {"clean", "return"}
     /\ frame.cands # {})
    => \A v \in frame.cands : Clashes(frame.selected) <= Clashes(v)


\* C23: whenever at least one repaired candidate has no semitone-adjacent pair
\* of notes, the voicing choose_best_voicing returns holds no two pitches one
\* semitone apart of which either lies below GLUE_LOW_CUTOFF (48)
C23_NoLowSemitonePairReturned ==
  (frame.fn = "choose_best_voicing" /\ frame.at = "return"
     /\ \E v \in frame.repaired : semitone_pairs(v) = {})
    => glue_ok(frame.result) # "no"

\* C24: when at least one repaired candidate shares no more absolute pitches
\* with the previous voicing than the cap (MAX_SHARED_DEFAULT, or
\* MAX_SHARED_MIN11 when either chord is a min11), the voicing returned after
\* the last clean-up shares no more than the cap with it
C24_SharedToneCapReturned ==
  (frame.fn = "choose_best_voicing" /\ frame.at = "return"
     /\ \E v \in frame.repaired :
          shared_pitch_count(frame.prev_voicing, v)
            <= max_shared_allowed(frame.prev_qual, frame.cur_qual))
    => shared_pitch_count(frame.prev_voicing, frame.result)
         <= max_shared_allowed(frame.prev_qual, frame.cur_qual)


\* ------------------------------------------------------------------------
\* optimize_progression_register(chords_notes) on its own, one chord at a
\* time. The frame holds the argument, the list out as it grows, the local
\* prev and the result
\* ------------------------------------------------------------------------
\* the longest progression the function is called with
MaxOptimized == 3

\* the most notes a chord of the progressions explored holds
MaxOptimizedNotes == 3

\* the raw notes of the chords of a key, as write_progression_midi computes them
RawChords(key) ==
  {_enforce_register(chord_to_midi(ch[1], ch[2])) :
     ch \in {c \in DiatonicChords(key) :
               Len(QUAL_TO_INTERVALS[c[2]]) <= MaxOptimizedNotes}}

\* the progressions of a key written without revoicing: 2..MaxOptimized chords
\* of the key, none of them twice
OptimizeInputs(key) ==
  {p \in UNION {[1..k -> RawChords(key)] : k \in 2..MaxOptimized} :
     \A i, j \in DOMAIN p : i # j => p[i] # p[j]}

InitOptimize ==
  /\ ProfileDefault
  /\ GeneratorIdle
  /\ SeedIdle
  /\ WriterIdle
  /\ \E key \in ModelKeys :
       \E chords_notes \in OptimizeInputs(key) :
         frame = [fn |-> "optimize_progression_register",
                  chords_notes |-> chords_notes, out |-> <<>>, prev |-> <<>>,
                  at |-> "first", result |-> <<>>]

\* prev = _enforce_register(chords_notes[0]); out.append(prev)
OptimizeFirst ==
  /\ frame.fn = "optimize_progression_register"
  /\ frame.at = "first"
  /\ LET prev == _enforce_register(frame.chords_notes[1])
     IN frame' = [frame EXCEPT !.prev = prev, !.out = <<prev>>, !.at = "loop"]
  /\ UNCHANGED gen_vars
  /\ UNCHANGED voice_vars
  /\ UNCHANGED seed_vars
  /\ UNCHANGED ui_vars

\* one round of "for cur_raw in chords_notes[1:]"
OptimizeChord ==
  /\ frame.fn = "optimize_progression_register"
  /\ frame.at = "loop"
  /\ Len(frame.out) < Len(frame.chords_notes)
  /\ LET best == BestShift(frame.prev, frame.chords_notes[Len(frame.out) + 1])
     IN frame' = [frame EXCEPT !.prev = best, !.out = Append(@, best)]
  /\ UNCHANGED gen_vars
  /\ UNCHANGED voice_vars
  /\ UNCHANGED seed_vars
  /\ UNCHANGED ui_vars

\* return out
OptimizeReturn ==
  /\ frame.fn = "optimize_progression_register"
  /\ frame.at = "loop"
  /\ Len(frame.out) = Len(frame.chords_notes)
  /\ frame' = [frame EXCEPT !.result = frame.out, !.at = "return"]
  /\ UNCHANGED gen_vars
  /\ UNCHANGED voice_vars
  /\ UNCHANGED seed_vars
  /\ UNCHANGED ui_vars

NextOptimize == OptimizeFirst \/ OptimizeChord \/ OptimizeReturn

SpecOptimize == InitOptimize /\ [][NextOptimize]_vars

\* the rounds, taken one at a time, return what the function returns
OptimizeRoundsAgree ==
  (frame.fn = "optimize_progression_register" /\ frame.at = "return")
    => frame.result = optimize_progression_register(frame.chords_notes)

\* the register-enforced candidates of cur_raw for the shifts -2..+2
ShiftCandidates(cur_raw) ==
  {_enforce_register(_oct_shift(cur_raw, k)) : k \in -2..2}

\* the priority of the candidate cand after the context prev: shared pitch
\* classes, pitch classes a semitone or a whole tone from one of prev,
\* voice-leading movement (less is better), bass jump (less is better)
Priority(prev, cand) ==
  <<Cardinality(_pcset(prev) \cap _pcset(cand)),
    Cardinality({x \in _pcset(cand) :
                   \E y \in _pcset(prev) : (x - y) % 12 \in {1, 2, 10, 11}}),
    0 - _min_assignment_move(prev, cand),
    0 - Abs(SetMin(Range(cand)) - SetMin(Range(prev)))>>

\* C27: optimize_progression_register keeps, for each chord after the first,
\* one of the register-enforced candidates of the shifts -2..+2 that no other
\* candidate beats in the lexicographic priority (shared pitch classes,
\* adjacent pitch classes, least movement, smallest bass jump) against the
\* chord kept before it; it returns one chord per input chord, the first one
\* _enforce_register of the first input chord
C27_BestShiftKept ==
  frame.fn = "optimize_progression_register"
    => /\ \A j \in 2..Len(frame.out) :
            /\ frame.out[j] \in ShiftCandidates(frame.chords_notes[j])
            /\ \A cand \in ShiftCandidates(frame.chords_notes[j]) :
                 ~TupleLess(Priority(frame.out[j - 1], frame.out[j]),
                            Priority(frame.out[j - 1], cand))
       /\ frame.at = "return"
            => /\ Len(frame.result) = Len(frame.chords_notes)
               /\ frame.result[1] = _enforce_register(frame.chords_notes[1])

\* a call of three chords returned, the second chord kept in another octave
\* than given and the third chosen among two candidates against it
C27_Witness ==
  /\ frame.fn = "optimize_progression_register"
  /\ frame.at = "return"
  /\ Len(frame.result) = 3
  /\ frame.result[2] # frame.chords_notes[2]
  /\ Cardinality(ShiftCandidates(frame.chords_notes[3])) >= 2
  /\ frame.result[3] # frame.chords_notes[3]


\* ------------------------------------------------------------------------
\* The bookkeeping of generate_progressions
\* ------------------------------------------------------------------------
\* the batch state: the progressions kept and the counters about them
BatchState ==
  <<out, used_exact, pattern_counts, pattern_dupe_used, low_sim_total, qual_usage>>

\* the sum of the values of a Counter over the keys ks
RECURSIVE CounterTotalOver(_, _)
CounterTotalOver(c, ks) ==
  IF ks = {} THEN 0
  ELSE LET k == CHOOSE x \in ks : TRUE
       IN c[k] + CounterTotalOver(c, ks \ {k})

\* sum(qual_usage.values())
QualityHistogramTotal == CounterTotalOver(qual_usage, DOMAIN qual_usage)

\* the chords of the batch built so far
BatchChordTotal == SumSeq([p \in 1..Len(out) |-> Len(out[p].chords)])

\* a pass of the attempt loop that ends in a continue
RejectedAttempt == pc = "try" /\ tries' > tries

\* the bookkeeping of the step is that of accepting the progression appended
AcceptedAlone ==
  LET p == out'[Len(out')]
      h == hist'[Len(hist')]
      fp == <<h.degs, h.quals>>
  IN /\ pc = "try"
     /\ last' = "accepted"
     /\ Len(out') = Len(out) + 1
     /\ SubSeq(out', 1, Len(out)) = out
     /\ p.chords \notin used_exact
     /\ used_exact' = used_exact \cup {p.chords}
     /\ \A q \in Qualities :
          CounterGet(qual_usage', q)
            = CounterGet(qual_usage, q)
              + Cardinality({j \in DOMAIN h.quals : h.quals[j] = q})
     /\ \A f \in DOMAIN pattern_counts' \cup DOMAIN pattern_counts :
          CounterGet(pattern_counts', f)
            = CounterGet(pattern_counts, f) + (IF f = fp THEN 1 ELSE 0)
     /\ pattern_dupe_used'
          = pattern_dupe_used + (IF CounterGet(pattern_counts, fp) >= 1 THEN 1 ELSE 0)
     /\ low_sim_total' >= low_sim_total

BookkeepingStep ==
  /\ RejectedAttempt => BatchState' = BatchState
  /\ BatchState' # BatchState => AcceptedAlone

\* C28: a rejected attempt (builder reject, banned, duplicate, over quota)
\* leaves the whole batch state unchanged; the bookkeeping changes only when a
\* progression is accepted, and for that progression alone; the quality
\* histogram sums to the number of chords of the batch
C28_BookkeepingOnAcceptOnly ==
  /\ [][BookkeepingStep]_vars
  /\ [](QualityHistogramTotal = BatchChordTotal)

\* an attempt was refused by the ban list after a progression of at least
\* two chords had been accepted
C28_Witness ==
  /\ last = "banned"
  /\ Len(out) >= 1
  /\ QualityHistogramTotal >= 2


\* ------------------------------------------------------------------------
\* The seventh degree
\* ------------------------------------------------------------------------
\* the only template of TEMPLATES_BY_LEN that holds the degree 6
SEVENTH_TEMPLATE == <<0, 6, 3>>

\* in each of the 12 keys no quality of the table is diatonic on the seventh
\* degree
NoSeventhDegreeQuality ==
  \A k \in 1..Len(KEYS) : \A q \in Qualities :
    ~_is_diatonic_chord(KEYS[k], SCALES[KEYS[k]][7], q)

\* C29: no chord of an accepted progression is rooted on the seventh degree
\* (index 6): no quality is diatonic on that root in any of the 12 keys, the
\* pool of degree 6 is empty in every slot, the de-duplication never leaves a
\* chord there, and an attempt that samples the template (0, 6, 3) is rejected
C29_NoChordOnSeventhDegree ==
  /\ NoSeventhDegreeQuality
  /\ \A p \in 1..Len(hist) :
       /\ 6 \notin Range(hist[p].degs)
       /\ hist[p].template # SEVENTH_TEMPLATE
  /\ pc = "try"
       => /\ _build_deg_allowed(chord_balance, keys[Len(keys)])[6] = <<>>
          /\ \A total_bars \in {4, 8, 16} :
               BuildOptions(SEVENTH_TEMPLATE, total_bars) = {BuildNone}

\* with every quality enabled the template (0, 6, 3) is one of those sampled
\* for three chords; an attempt of such a batch was rejected by the builder
C29_Witness ==
  /\ pc = "try"
  /\ last = "rejected"
  /\ ~HasBalance(chord_balance)
  /\ SEVENTH_TEMPLATE \in _pick_template_degs(3)
  /\ ChordCountExplored(3)
  /\ BuildNone \in BuildOptions(SEVENTH_TEMPLATE, 4)


\* ------------------------------------------------------------------------
\* write_progression_midi called twice with the same progression, flag and
\* seed, another voicing profile picked in between
\* ------------------------------------------------------------------------
\* the names of the select box: list(VOICING_PROFILES.keys())
ProfileNames == DOMAIN VOICING_PROFILES

\* the template of the progressions written, one of TEMPLATES_BY_LEN[2]
PROFILE_TEMPLATE == <<0, 5>>

InitProfile ==
  /\ voicing_profile \in ProfileNames
  /\ GeneratorIdle
  /\ FrameIdle
  /\ key_name \in ModelKeys
  /\ revoice \in BOOLEAN
  /\ \E ch1 \in ChordsOnDegree(key_name, PROFILE_TEMPLATE[1]) :
       \E ch2 \in ChordsOnDegree(key_name, PROFILE_TEMPLATE[2]) :
         chords = <<ch1, ch2>>
  /\ raw = <<>>
  /\ voiced = <<>>
  /\ filters = <<>>
  /\ out_notes = <<>>
  /\ pitches = <<>>
  /\ wpc = "profile"
  /\ rng = Random(EmptyStream)
  /\ first = <<>>

\* the notes written for out_notes: sorted(set(shifted)) per chord
PitchesWritten(notes) ==
  [i \in DOMAIN notes |->
     SortedSet({x + GLOBAL_TRANSPOSE : x \in Range(notes[i])})]

\* the call the draws of one glue filter are logged as
GlueCall(draws) == [op |-> "glue_ok", args |-> <<draws>>]

\* the candidates the draws of one glue filter can keep, the draws taken
\* together at position p; a filter without a candidate to draw for calls
\* rng.random() not at all
GlueDraw(p, draws) ==
  IF draws = {} THEN {{}} ELSE Draw(p, GlueCall(draws), KeptSets(draws, MaxGlueKept))

\* the stream seen once the draws of a glue filter kept the candidates kept
RevealGlue(log, p, draws, kept) ==
  IF draws = {} THEN log ELSE Reveal(log, p, GlueCall(draws), kept)

\* the call the head of a sorted list of candidates is logged as
HeadCall(best) == [op |-> "cands[0]", args |-> <<best>>]

\* write_progression_midi for the two chords, up to the notes written. The
\* candidate the stable sort puts first among those of least cost is met once
\* per list (positions 0 and -1 of the log, which are no positions of the
\* stream) and the same ever after
ProfileWriteWith(raw1, raw2, draws1, draws2) ==
  LET p1 == rng.start + rng.used + 1
      p2 == p1 + Cardinality(draws1)
  IN /\ raw' = <<raw1, raw2>>
     /\ IF revoice
          THEN \E kept1 \in GlueDraw(p1, draws1) :
               \E kept2 \in GlueDraw(p2, draws2) :
                 LET best1 == choose_best_voicing(<<>>, chords[1][2], chords[1][2],
                                                  raw1, key_name, kept1)
                 IN \E v1 \in Draw(0, HeadCall(best1), best1) :
                      LET best2 == choose_best_voicing(_enforce_register(v1),
                                     chords[1][2], chords[2][2], raw2, key_name, kept2)
                      IN \E v2 \in Draw(-1, HeadCall(best2), best2) :
                           /\ voiced' = <<_enforce_register(v1), _enforce_register(v2)>>
                           /\ rng' = [rng EXCEPT
                                !.log = Reveal(Reveal(
                                          RevealGlue(RevealGlue(@, p1, draws1, kept1),
                                                     p2, draws2, kept2),
                                          0, HeadCall(best1), v1),
                                          -1, HeadCall(best2), v2),
                                !.used = @ + Cardinality(draws1) + Cardinality(draws2)]
        ELSE /\ voiced' = <<>>
             /\ UNCHANGED rng
     /\ out_notes' = optimize_progression_register(IF revoice THEN voiced' ELSE raw')
     /\ pitches' = PitchesWritten(out_notes')

ProfileWrite ==
  /\ wpc = "profile"
  /\ LET raw1 == _enforce_register(chord_to_midi(chords[1][1], chords[1][2]))
         raw2 == _enforce_register(chord_to_midi(chords[2][1], chords[2][2]))
     IN ProfileWriteWith(raw1, raw2, GlueDraws(raw1), GlueDraws(raw2))
  /\ wpc' = "written"
  /\ UNCHANGED <<key_name, revoice, chords, filters, first>>
  /\ UNCHANGED gen_vars
  /\ UNCHANGED frame_vars
  /\ UNCHANGED ui_vars

\* another profile is picked in the select box and the file is written again,
\* with the progression, the flag and the seed of the first call
SelectProfile ==
  /\ wpc = "written"
  /\ first = <<>>
  /\ voicing_profile' \in ProfileNames \ {voicing_profile}
  /\ first' = <<[profile |-> voicing_profile, notes |-> out_notes,
                 pitches |-> pitches]>>
  /\ rng' = Random(rng)
  /\ raw' = <<>>
  /\ voiced' = <<>>
  /\ out_notes' = <<>>
  /\ pitches' = <<>>
  /\ wpc' = "profile"
  /\ UNCHANGED <<key_name, revoice, chords, filters>>
  /\ UNCHANGED gen_vars
  /\ UNCHANGED frame_vars

NextProfile == ProfileWrite \/ SelectProfile

SpecProfile == InitProfile /\ [][NextProfile]_vars

====
